---- MODULE Spec2Model ----
(***************************************************************************)
(* Context Assembly Engine of the tax-assistant backend (Andrew-Beniash/tai) *)
(*                                                                         *)
(*   text_utils.split_into_chunks          the chunker (SpecChunk)         *)
(*   document_parser.extract_document_text the extractor (SpecExtract)     *)
(*   RAGService.search_documents           the retriever (SpecSearch)      *)
(*   RAGService._get_document_snippets     the assembler (SpecAssemble)    *)
(*   RAGService.build_prompt_with_context  the user prompt (SpecPrompt)    *)
(*   text_utils.extract_actions_from_response  the actions (SpecActions)   *)
(*   RAGService.get_task_context           the chat flow (SpecContext)     *)
(*   two assembler calls in flight         (SpecConcurrent)                *)
(*   text_utils.extract_key_info           the narrowing (SpecKeyInfo)     *)
(*                                                                         *)
(* A text is a string; offsets are Python's (0-based, end exclusive).      *)
(***************************************************************************)
EXTENDS Integers, Sequences, FiniteSets, TLC

VARIABLES
    pc,          \* position of the running call
    text,        \* split_into_chunks: the text argument
    chunk_size,  \* split_into_chunks: the chunk_size argument
    overlap,     \* split_into_chunks: the overlap argument
    start,       \* split_into_chunks: the window start (local `start`)
    chunks,      \* split_into_chunks: the list `chunks`, as [s, e] offsets of text
    filename,    \* extract_document_text: the filename argument, later local
    db_doc,      \* the Document record the repository holds for doc_id
    drive_bytes, \* what Google Drive holds for the document's drive_file_id
    parser_support, \* PDF_SUPPORT / DOCX_SUPPORT / XLSX_SUPPORT, set at import
    content,     \* extract_document_text: locals `content`, `mime_type`
    result,      \* the call's return value
    raised,      \* where an exception was raised during the call
    filename_arg, \* extract_document_text: the filename argument as passed
    not_found,   \* a repository lookup of the call found no record
    documents,   \* search_documents, _get_document_snippets: the documents
    query,       \* the query argument (None: no query)
    max_results, \* search_documents: the max_results argument
    chunking,    \* get_document_chunks: chunk size and overlap it splits with
    results,     \* search_documents: the returned list
    prior,       \* the query and the result of the call before this one
    relevance,   \* calculate_relevance_score: the returned value
    max_tokens,  \* _get_document_snippets: the max_tokens argument
    snippets,    \* _get_document_snippets: the list `snippets`
    current_tokens, \* _get_document_snippets: the local `current_tokens`
    tax_form_template, \* build_prompt_with_context: context.get("tax_form_template")
    sorted_snippets, \* build_prompt_with_context: the local `sorted_snippets`
    user_prompt, \* build_prompt_with_context: the returned user prompt
    response,    \* extract_actions_from_response: the response argument
    actions,     \* extract_actions_from_response: the list `actions`
    unique_actions, \* extract_actions_from_response: the returned list
    first_call,  \* the response and the result of the first call made
    interleaved, \* a call with another response was made since first_call
    context,     \* get_task_context: the returned dict, as far as it is read
    calls,       \* get_task_context: the collaborators called so far
    system_prompt, \* build_prompt_with_context: the returned system prompt
    task,        \* the Task record the repository holds for task_id
    in_flight,   \* the _get_document_snippets calls in progress: their arguments and locals
    key_info     \* the extract_key_info call: its arguments and the list it returned

chunkVars == <<text, chunk_size, overlap, start, chunks>>
extractVars ==
    <<filename, db_doc, drive_bytes, parser_support, content, result, raised, filename_arg,
      not_found>>
searchVars ==
    <<documents, query, max_results, chunking, results, prior, relevance, max_tokens, snippets,
      current_tokens>>
chatVars ==
    <<tax_form_template, sorted_snippets, user_prompt, response, actions, unique_actions,
      first_call, interleaved, context, calls, system_prompt,
      task, in_flight, key_info>>
vars == <<pc, chunkVars, extractVars, searchVars, chatVars>>

----------------------------------------------------------------------------
(* Bounds of the model *)

MaxPieces == 4
MaxChunkSize == 6
MaxOverlap == 2

----------------------------------------------------------------------------
(* Python helpers *)

Min(a, b) == IF a <= b THEN a ELSE b
Max(a, b) == IF a >= b THEN a ELSE b

\* text[s:e] for 0 <= s, e
Slice(t, s, e) == SubSeq(t, s + 1, Min(e, Len(t)))

\* t[i:i+len(sub)] == sub
MatchAt(t, sub, i) ==
    /\ i >= 0
    /\ i + Len(sub) <= Len(t)
    /\ SubSeq(t, i + 1, i + Len(sub)) = sub

\* str.rfind(sub, s, e): the highest offset in [s, e - len(sub)] where sub
\* occurs, -1 when there is none
RFind(t, sub, s, e) ==
    LET hits == {i \in s..(Min(e, Len(t)) - Len(sub)) : MatchAt(t, sub, i)}
    IN IF hits = {} THEN -1 ELSE CHOOSE i \in hits : \A j \in hits : j <= i

RECURSIVE Concat(_)
Concat(ss) == IF ss = <<>> THEN "" ELSE Head(ss) \o Concat(Tail(ss))

RECURSIVE SeqsUpTo(_, _)
SeqsUpTo(S, n) ==
    IF n = 0 THEN {<<>>}
    ELSE LET shorter == SeqsUpTo(S, n - 1)
         IN shorter \cup {Append(q, x) : q \in shorter, x \in S}

\* Optional values
None == [some |-> FALSE, val |-> ""]
Some(v) == [some |-> TRUE, val |-> v]

\* the variables of a call that is not running
ExtractIdle ==
    /\ filename = None
    /\ db_doc = None
    /\ drive_bytes = ""
    /\ parser_support = TRUE
    /\ content = None
    /\ result = None
    /\ raised = {}
    /\ filename_arg = None
    /\ not_found = FALSE

SearchIdle ==
    /\ documents = <<>>
    /\ query = None
    /\ max_results = 0
    /\ chunking = [size |-> 0, overlap |-> 0]
    /\ results = <<>>
    /\ prior = None
    /\ relevance = None
    /\ max_tokens = 0
    /\ snippets = <<>>
    /\ current_tokens = 0

ChunkIdle ==
    /\ text = ""
    /\ chunk_size = 0
    /\ overlap = 0
    /\ start = 0
    /\ chunks = <<>>

ChatIdle ==
    /\ tax_form_template = None
    /\ sorted_snippets = <<>>
    /\ user_prompt = ""
    /\ response = ""
    /\ actions = <<>>
    /\ unique_actions = <<>>
    /\ first_call = None
    /\ interleaved = FALSE
    /\ context = None
    /\ calls = {}
    /\ system_prompt = ""
    /\ task = None
    /\ in_flight = <<>>
    /\ key_info = None

----------------------------------------------------------------------------
(* split_into_chunks *)

ParagraphSep == "\n\n"
SentenceSep == ". "
SpaceSep == " "

\* the texts the chunker is run on: what matters to it is where paragraph
\* separators, sentence terminators and spaces lie
ChunkPieces == {"a", ".", SpaceSep, SentenceSep, ParagraphSep}
ChunkTexts == {Concat(ps) : ps \in SeqsUpTo(ChunkPieces, MaxPieces)}

\* mutant of PastMidpoint: any break found in the window is taken
PastMidpointAnywhere(brk, s, size) == brk /= -1

\* a break is taken only past the midpoint of the window
PastMidpoint(brk, s, size) == brk /= -1 /\ brk > s + (size \div 2)

\* the end of the window starting at s
WindowEnd(t, s, size) ==
    LET end == Min(s + size, Len(t))
        paragraph_break == RFind(t, ParagraphSep, s, end)
        sentence_break == RFind(t, SentenceSep, s, end)
        space_break == RFind(t, SpaceSep, s, end)
    IN IF end < Len(t)
       THEN IF PastMidpoint(paragraph_break, s, size) THEN paragraph_break + 2
            ELSE IF PastMidpoint(sentence_break, s, size) THEN sentence_break + 2
            ELSE IF PastMidpoint(space_break, s, size) THEN space_break + 1
            ELSE end
       ELSE end

\* mutants of NextStart: no forward progress; one character skipped
NextStartNoProgress(s, end, ov) == end - ov
NextStartGap(s, end, ov) == Max(s + 1, end - ov + 1)

\* `start = max(start + 1, end - overlap)`
NextStart(s, end, ov) == Max(s + 1, end - ov)

\* mutant of FitsInOneChunk: `<` for `<=`
FitsInOneChunkStrict(t, size) == Len(t) < size

\* `len(text) <= chunk_size`
FitsInOneChunk(t, size) == Len(t) <= size

InitChunk ==
    /\ pc = "call"
    /\ text \in ChunkTexts
    /\ chunk_size \in 1..MaxChunkSize
    /\ overlap \in 0..MaxOverlap
    /\ start = 0
    /\ chunks = <<>>
    /\ ExtractIdle
    /\ SearchIdle
    /\ ChatIdle

\* `if not text: return []`
ChunkEmpty ==
    /\ pc = "call"
    /\ text = ""
    /\ pc' = "done"
    /\ UNCHANGED <<text, chunk_size, overlap, start, chunks>>
    /\ UNCHANGED <<extractVars, searchVars, chatVars>>

\* `if len(text) <= chunk_size: return [text]`
ChunkSingle ==
    /\ pc = "call"
    /\ text /= ""
    /\ FitsInOneChunk(text, chunk_size)
    /\ chunks' = <<[s |-> 0, e |-> Len(text)]>>
    /\ pc' = "done"
    /\ UNCHANGED <<text, chunk_size, overlap, start>>
    /\ UNCHANGED <<extractVars, searchVars, chatVars>>

\* `chunks = []; start = 0`
ChunkEnterLoop ==
    /\ pc = "call"
    /\ text /= ""
    /\ ~FitsInOneChunk(text, chunk_size)
    /\ pc' = "loop"
    /\ UNCHANGED <<text, chunk_size, overlap, start, chunks>>
    /\ UNCHANGED <<extractVars, searchVars, chatVars>>

\* one iteration of `while start < len(text)`
ChunkStep ==
    /\ pc = "loop"
    /\ start < Len(text)
    /\ LET end == WindowEnd(text, start, chunk_size)
       IN /\ chunks' = Append(chunks, [s |-> start, e |-> end])
          /\ start' = NextStart(start, end, overlap)
    /\ UNCHANGED <<pc, text, chunk_size, overlap>>
    /\ UNCHANGED <<extractVars, searchVars, chatVars>>

\* the loop condition fails: `return chunks`
ChunkReturn ==
    /\ pc = "loop"
    /\ start >= Len(text)
    /\ pc' = "done"
    /\ UNCHANGED <<text, chunk_size, overlap, start, chunks>>
    /\ UNCHANGED <<extractVars, searchVars, chatVars>>

NextChunk == ChunkEmpty \/ ChunkSingle \/ ChunkEnterLoop \/ ChunkStep \/ ChunkReturn

SpecChunk == InitChunk /\ [][NextChunk]_vars

SpecChunkFair == SpecChunk /\ WF_vars(NextChunk)

\* the returned list of substrings
ChunkTextsOf(t, cs) == [i \in 1..Len(cs) |-> Slice(t, cs[i].s, cs[i].e)]

----------------------------------------------------------------------------
(* Properties of split_into_chunks *)

\* C4: the chunks returned by split_into_chunks cover the text without a gap:
\* the first chunk starts at offset 0, every later chunk starts at or before
\* the end offset of the chunk before it, and the last chunk ends at len(text)
\* (the empty text has no chunk and nothing to cover).
C4_ChunksCoverText ==
    pc = "done" =>
        IF chunks = <<>> THEN text = ""
        ELSE /\ chunks[1].s = 0
             /\ chunks[Len(chunks)].e = Len(text)
             /\ \A i \in 1..(Len(chunks) - 1) : chunks[i + 1].s <= chunks[i].e

\* a run of the sliding window with a break taken before the hard cut
C4_Witness ==
    /\ pc = "done"
    /\ Len(chunks) >= 2
    /\ overlap = 0
    /\ \E i \in 1..(Len(chunks) - 1) : chunks[i].e - chunks[i].s < chunk_size

\* C5: split_into_chunks terminates for every text, chunk size and overlap,
\* overlap >= chunk_size included: every iteration of the loop strictly
\* increases the window start, and every call reaches its return.
C5_ChunkingTerminates ==
    /\ [][(pc = "loop" /\ start < Len(text)) => start' > start]_vars
    /\ <>(pc = "done")

\* a finished sliding-window run whose overlap is at least the chunk size
C5_Witness ==
    /\ pc = "done"
    /\ overlap >= chunk_size
    /\ Len(chunks) >= 2

\* C6 as stated: every text no longer than chunk_size, the empty text
\* included, is returned as the one-element list [text].
C6_ShortTextIsOneChunk_Original ==
    (pc = "done" /\ Len(text) <= chunk_size) =>
        ChunkTextsOf(text, chunks) = <<text>>

\* C6 amended: a non-empty text no longer than chunk_size is returned as the
\* one-element list [text], whatever the overlap; the empty text is returned
\* as the empty list.
C6_ShortTextIsOneChunk ==
    (pc = "done" /\ Len(text) <= chunk_size) =>
        IF text = "" THEN chunks = <<>>
        ELSE ChunkTextsOf(text, chunks) = <<text>>

\* a non-empty text of exactly chunk_size characters, with an overlap
C6_Witness ==
    /\ pc = "done"
    /\ text /= ""
    /\ Len(text) = chunk_size
    /\ overlap > 0

\* the chunk [s, e) ends right after the separator sep, found past the
\* midpoint of the window that starts at s
EndsAtBreak(t, c, sep, size) ==
    /\ c.e - Len(sep) >= c.s
    /\ MatchAt(t, sep, c.e - Len(sep))
    /\ c.e - Len(sep) > c.s + (size \div 2)

\* C25: for chunk_size >= 2, every chunk is at most chunk_size long, and a
\* chunk that ends before the end of the text is longer than chunk_size / 2:
\* it is cut at exactly chunk_size characters, or it ends right after a
\* paragraph, sentence or space break that lies past the midpoint.
C25_ChunkLengthBounds ==
    (pc \in {"loop", "done"} /\ chunk_size >= 2) =>
        \A i \in 1..Len(chunks) :
            /\ chunks[i].e - chunks[i].s <= chunk_size
            /\ chunks[i].e < Len(text) =>
                  /\ 2 * (chunks[i].e - chunks[i].s) > chunk_size
                  /\ \/ chunks[i].e - chunks[i].s = chunk_size
                     \/ \E sep \in {ParagraphSep, SentenceSep, SpaceSep} :
                           EndsAtBreak(text, chunks[i], sep, chunk_size)

\* a finished call with a chunk cut at a break and a chunk cut at chunk_size,
\* both before the end of the text
C25_Witness ==
    /\ pc = "done"
    /\ chunk_size >= 2
    /\ \E i, j \in 1..Len(chunks) :
          /\ chunks[i].e < Len(text)
          /\ chunks[i].e - chunks[i].s < chunk_size
          /\ chunks[j].e < Len(text)
          /\ chunks[j].e - chunks[j].s = chunk_size

\* C27: the end offsets of the chunks strictly increase, so no chunk lies
\* inside the chunk before it.
C27_EndOffsetsIncrease ==
    pc \in {"loop", "done"} =>
        \A i \in 1..(Len(chunks) - 1) : chunks[i].e < chunks[i + 1].e

----------------------------------------------------------------------------
(* Python string helpers *)

CharAt(s, i) == SubSeq(s, i, i)

UpperLetters == "ABCDEFGHIJKLMNOPQRSTUVWXYZ"
LowerLetters == "abcdefghijklmnopqrstuvwxyz"

\* the lower-case letter of every upper-case letter
LowerOf ==
    [c \in {CharAt(UpperLetters, i) : i \in 1..Len(UpperLetters)} |->
        CharAt(LowerLetters, CHOOSE i \in 1..Len(UpperLetters) : CharAt(UpperLetters, i) = c)]

LowerChar(c) == IF c \in DOMAIN LowerOf THEN LowerOf[c] ELSE c

\* str.lower()
RECURSIVE ToLower(_)
ToLower(s) ==
    IF Len(s) = 0 THEN ""
    ELSE IF Len(s) = 1 THEN LowerChar(s)
    ELSE LET half == Len(s) \div 2
         IN ToLower(SubSeq(s, 1, half)) \o ToLower(SubSeq(s, half + 1, Len(s)))

\* str.startswith(prefix)
StartsWith(s, prefix) == MatchAt(s, prefix, 0)

IsSpaceChar(c) == c \in {" ", "\n", "\t", "\r"}

\* str.strip()
RECURSIVE LStrip(_)
LStrip(s) == IF s /= "" /\ IsSpaceChar(Head(s)) THEN LStrip(Tail(s)) ELSE s
RECURSIVE RStrip(_)
RStrip(s) ==
    IF s /= "" /\ IsSpaceChar(CharAt(s, Len(s)))
    THEN RStrip(SubSeq(s, 1, Len(s) - 1)) ELSE s
Strip(s) == RStrip(LStrip(s))

\* os.path.splitext(p)[1] of a file name without directory part: from the
\* last dot on, unless only dots precede it
SplitextExt(p) ==
    LET dot == RFind(p, ".", 0, Len(p))
    IN IF dot = -1 \/ (\A k \in 1..dot : CharAt(p, k) = ".") THEN ""
       ELSE SubSeq(p, dot + 1, Len(p))

----------------------------------------------------------------------------
(* document_parser.extract_document_text and what it calls *)

DummyNames == {"prior_year_return.pdf", "financial_statement.xlsx", "SOW.docx", "client_responses.docx", "form_1120_template.docx", "form_1065_template.docx"}

\* DUMMY_DOCUMENTS[name]
DummyText(name) ==
    IF name = "prior_year_return.pdf" THEN
        "\nACME CORPORATION - FORM 1120\nTax Year 2023\nEIN: 12-3456789\n\nINCOME:\nTotal Revenue: $5,435,000\nCost of Goods: $2,150,000\nGross Profit: $3,285,000\nOperating Expenses: $2,100,000\nNet Income: $1,185,000\n\nTAX CALCULATION:\nTaxable Income: $1,100,000\nFederal Tax Rate: 21%\nFederal Tax: $231,000\n\nNOTES:\n- Depreciation method for new equipment to be reviewed\n- Potential R&D credit application for software development\n- Missing documentation for charitable contributions\n- Foreign income from Canadian subsidiary requires additional forms\n"
    ELSE IF name = "financial_statement.xlsx" THEN
        "\nACME CORPORATION\nBalance Sheet as of Dec 31, 2023\n\nASSETS:\nCurrent Assets: $2,750,000\nFixed Assets: $4,200,000\nTotal Assets: $6,950,000\n\nLIABILITIES:\nCurrent Liabilities: $1,250,000\nLong-term Debt: $2,340,000\nTotal Liabilities: $3,590,000\n\nEQUITY:\nCommon Stock: $1,000,000\nRetained Earnings: $2,360,000\nTotal Equity: $3,360,000\n\nINCOME STATEMENT:\nRevenue: $5,435,000\nExpenses: $4,250,000\nNet Income: $1,185,000\n\nCASH FLOW:\nOperating Activities: $1,230,000\nInvesting Activities: ($850,000)\nFinancing Activities: ($300,000)\nNet Change in Cash: $80,000\n"
    ELSE IF name = "SOW.docx" THEN
        "\nSTATEMENT OF WORK\nClient: ACME Corporation\nTax Year: 2024\nServices: Corporate Tax Filing (Form 1120)\n\nSCOPE:\n- Preparation of Form 1120 and all required schedules\n- Tax planning advisory services\n- Quarterly estimated tax payment calculations\n- State tax returns for CA, NY, TX\n\nTIMELINE:\n- Initial documentation due: February 28, 2024\n- Draft return review: March 15, 2024\n- Final filing deadline: April 15, 2024\n\nFEES:\nBase preparation fee: $12,500\nAdditional services billed at $250/hour\n\nNOTES:\n- Client has expanded operations to Canada requiring international tax considerations\n- New manufacturing facility may qualify for additional deductions\n- CEO compensation package requires special documentation\n"
    ELSE IF name = "client_responses.docx" THEN
        "\nACME CORPORATION\nResponses to Tax Questionnaire\n\n1. Has the company structure changed? YES\n   Details: Added Canadian subsidiary in June 2023\n\n2. Any new major assets purchased? YES\n   Details: Manufacturing equipment ($1.2M) in August 2023\n\n3. Any changes to officer compensation? YES\n   Details: New CEO package includes stock options\n\n4. Any new debt or financing? NO\n\n5. Any legal settlements or lawsuits? NO\n\n6. Any foreign operations or accounts? YES\n   Details: Canadian operations began June 2023\n   \n7. Any tax credits being claimed? UNSURE\n   Details: May qualify for R&D credits for software development\n\nMISSING ITEMS:\n- Detailed breakdown of R&D expenses\n- Officer compensation documentation\n- Final depreciation schedules\n- Foreign income statements\n"
    ELSE IF name = "form_1120_template.docx" THEN
        "\nFORM 1120 - U.S. Corporation Income Tax Return\nTax Year: 2024\n\nPart I: Income\n1. Gross receipts or sales: _______\n2. Returns and allowances: _______\n3. Cost of goods sold: _______\n4. Gross profit (subtract line 3 from line 1c): _______\n5. Dividends: _______\n6. Interest: _______\n7. Gross rents: _______\n8. Gross royalties: _______\n9. Capital gain net income: _______\n10. Net gain or (loss) from Form 4797: _______\n\nPart II: Deductions\n12. Compensation of officers: _______\n13. Salaries and wages: _______\n14. Repairs and maintenance: _______\n15. Bad debts: _______\n16. Rents: _______\n17. Taxes and licenses: _______\n18. Interest: _______\n19. Charitable contributions: _______\n20. Depreciation: _______\n21. Depletion: _______\n22. Advertising: _______\n23. Pension, profit-sharing plans: _______\n\nPart III: Tax Computation\n31. Taxable income: _______\n32. Total tax: _______\n"
    ELSE IF name = "form_1065_template.docx" THEN
        "\nFORM 1065 - U.S. Return of Partnership Income\nTax Year: 2024\n\nPart I: Income\n1. Gross receipts or sales: _______\n2. Returns and allowances: _______\n3. Cost of goods sold: _______\n4. Gross profit (subtract line 3 from line 1c): _______\n5. Ordinary income (loss) from other partnerships: _______\n6. Net farm profit (loss): _______\n7. Net gain (loss) from Form 4797: _______\n8. Other income (loss): _______\n\nPart II: Deductions\n9. Salaries and wages: _______\n10. Guaranteed payments to partners: _______\n11. Repairs and maintenance: _______\n12. Bad debts: _______\n13. Rent: _______\n14. Taxes and licenses: _______\n15. Interest: _______\n16. Depreciation: _______\n17. Depletion: _______\n18. Retirement plans: _______\n19. Employee benefit programs: _______\n20. Other deductions: _______\n\nSchedule K: Partners' Distributive Share Items\n1. Ordinary business income (loss): _______\n2. Net rental real estate income (loss): _______\n3. Other net rental income (loss): _______\n4. Guaranteed payments: _______\n5. Interest income: _______\n6. Dividends: _______\n7. Royalties: _______\n8. Net short-term capital gain (loss): _______\n9. Net long-term capital gain (loss): _______\n"
    ELSE ""

\* Bytes are written as the characters they encode; "#" stands for one byte
\* that is not valid UTF-8 (0xE9, say).
InvalidByte == "#"

RECURSIVE MapChars(_, _, _)
MapChars(s, from, to) ==
    IF s = "" THEN ""
    ELSE (IF Head(s) = from THEN to ELSE Head(s)) \o MapChars(Tail(s), from, to)

Utf8Valid(b) == \A i \in 1..Len(b) : CharAt(b, i) /= InvalidByte

\* bytes.decode('latin-1'): every byte is one character ("@" stands for 0xE9's)
DecodeLatin1(b) == MapChars(b, InvalidByte, "@")

\* bytes.decode('utf-8', errors='replace'): "?" stands for U+FFFD
DecodeUtf8Replace(b) == MapChars(b, InvalidByte, "?")

\* the messages of the exceptions the collaborators raise
DbErrorMsg == "database unavailable"
ParserErrorMsg == "malformed file"

ErrorContent(msg) == "[Error extracting content: " \o msg \o "]"
CouldNotRetrieve == "[Could not retrieve document content]"
NotImplementedText(file_type) ==
    "Text extraction for " \o file_type \o " files not implemented in prototype"
UnsupportedExt(ext) == "[Content extraction not supported for " \o ext \o " files]"
UnsupportedMime(mime) ==
    "[Content extraction not supported for this file type: " \o mime \o "]"
ParserNotInstalled(fmt) ==
    IF fmt = "PDF" THEN "[PDF parsing support not installed. Install PyPDF2 package.]"
    ELSE IF fmt = "DOCX" THEN "[DOCX parsing support not installed. Install python-docx package.]"
    ELSE "[XLSX parsing support not installed. Install pandas package.]"
ParserError(fmt, msg) == "[Error extracting " \o fmt \o " text: " \o msg \o "]"

PdfMime == "application/pdf"
DocxMime == "application/vnd.openxmlformats-officedocument.wordprocessingml.document"
XlsxMime == "application/vnd.openxmlformats-officedocument.spreadsheetml.sheet"

\* mimetypes.guess_type("file." + ext)[0], None as ""
GuessType(ext) ==
    LET e == ToLower(ext)
    IN IF e = "pdf" THEN PdfMime
       ELSE IF e = "docx" THEN DocxMime
       ELSE IF e = "xlsx" THEN XlsxMime
       ELSE IF e = "txt" THEN "text/plain"
       ELSE IF e = "csv" THEN "text/csv"
       ELSE IF e = "md" THEN "text/markdown"
       ELSE IF e = "json" THEN "application/json"
       ELSE ""

\* get_document_content: the MIME type of a file type
MimeOf(file_type) ==
    LET guessed ==
            IF file_type = "" THEN ""
            ELSE IF StartsWith(file_type, ".")
                 THEN GuessType(SubSeq(file_type, 2, Len(file_type)))
                 ELSE GuessType(file_type)
        ft == ToLower(file_type)
    IN IF guessed /= "" THEN guessed
       ELSE IF ft = "pdf" THEN PdfMime
       ELSE IF ft = "docx" THEN DocxMime
       ELSE IF ft = "xlsx" THEN XlsxMime
       ELSE IF ft = "txt" THEN "text/plain"
       ELSE "application/octet-stream"

\* what one call of the repository's get_by_id, and one download from Drive,
\* can do: other requests create and delete records between two awaits
DbOutcomes == {"found", "missing", "raise"}
DriveOutcomes == {"ok", "raise"}
LibOutcomes == {"ok", "raise"}

\* DocumentService.get_document_content under the outcomes db, drive of its
\* two collaborator calls: (content, mime_type), or the exception it lets
\* through; an exception of the download is caught and gives (None, None)
GetDocumentContent(doc, bytes, db, drive) ==
    IF db = "raise" THEN [raises |-> TRUE, content |-> None, mime |-> None, drive_raised |-> FALSE]
    ELSE IF db = "missing" THEN [raises |-> FALSE, content |-> None, mime |-> None, drive_raised |-> FALSE]
    ELSE IF drive = "raise" THEN [raises |-> FALSE, content |-> None, mime |-> None, drive_raised |-> TRUE]
    ELSE [raises |-> FALSE, content |-> Some(bytes), mime |-> Some(MimeOf(doc.file_type)),
          drive_raised |-> FALSE]

\* `if not content`
NoContent(c) == ~c.some \/ c.val = ""

TextFileTypes == {"txt", "text", "md", "markdown"}

\* DocumentService.get_text_content under the outcomes of its own lookup
\* (db1) and of get_document_content's calls (db2, drive)
GetTextContent(doc, bytes, db1, db2, drive) ==
    LET got == GetDocumentContent(doc, bytes, db2, drive)
        file_type == ToLower(doc.file_type)
    IN IF db1 = "raise" THEN [raises |-> TRUE, val |-> None, drive_raised |-> FALSE]
       ELSE IF db1 = "missing" THEN [raises |-> FALSE, val |-> None, drive_raised |-> FALSE]
       ELSE IF got.raises THEN [raises |-> TRUE, val |-> None, drive_raised |-> FALSE]
       ELSE IF NoContent(got.content)
            THEN [raises |-> FALSE, val |-> None, drive_raised |-> got.drive_raised]
       ELSE IF file_type \in TextFileTypes
            THEN [raises |-> FALSE, drive_raised |-> FALSE,
                  val |-> Some(IF Utf8Valid(bytes) THEN bytes ELSE DecodeLatin1(bytes))]
       ELSE [raises |-> FALSE, drive_raised |-> FALSE,
             val |-> Some(NotImplementedText(file_type))]

\* the text a parsing library reads out of the bytes
LibraryText(bytes) == DecodeLatin1(bytes)

\* extract_text_from_pdf_bytes, _docx_bytes, _xlsx_bytes: each catches what
\* its library raises
FormatParser(fmt, bytes, support, lib) ==
    IF ~support THEN ParserNotInstalled(fmt)
    ELSE IF lib = "raise" THEN ParserError(fmt, ParserErrorMsg)
    ELSE IF fmt = "PDF" THEN Strip(LibraryText(bytes) \o "\n\n")
    ELSE IF fmt = "DOCX" THEN Strip(LibraryText(bytes) \o "\n")
    ELSE Strip("SHEET: Sheet1\n" \o LibraryText(bytes) \o "\n\n")

\* "Extract text based on file type": by MIME type without a file name, by
\* the file name's extension with one
ParseByType(fname, bytes, mime, support, lib) ==
    IF ~fname.some
    THEN IF mime = Some(PdfMime) THEN FormatParser("PDF", bytes, support, lib)
         ELSE IF mime = Some(DocxMime) THEN FormatParser("DOCX", bytes, support, lib)
         ELSE IF mime = Some(XlsxMime) THEN FormatParser("XLSX", bytes, support, lib)
         ELSE IF mime.some /\ mime.val /= "" /\ StartsWith(mime.val, "text/")
              THEN DecodeUtf8Replace(bytes)
         ELSE UnsupportedMime(mime.val)
    ELSE LET ext == SplitextExt(ToLower(fname.val))
         IN IF ext = ".pdf" THEN FormatParser("PDF", bytes, support, lib)
            ELSE IF ext = ".docx" THEN FormatParser("DOCX", bytes, support, lib)
            ELSE IF ext = ".xlsx" THEN FormatParser("XLSX", bytes, support, lib)
            ELSE IF ext \in {".txt", ".csv", ".json", ".md"} THEN DecodeUtf8Replace(bytes)
            ELSE UnsupportedExt(ext)

\* whether the format parser is the branch ParseByType takes
UsesFormatParser(fname, mime) ==
    IF ~fname.some THEN mime \in {Some(PdfMime), Some(DocxMime), Some(XlsxMime)}
    ELSE SplitextExt(ToLower(fname.val)) \in {".pdf", ".docx", ".xlsx"}

\* mutant of OnException: no handler, the exception leaves the call
OnExceptionPropagates(msg) == [pc |-> "raised", result |-> None]

\* `except Exception as e: return f"[Error extracting content: {str(e)}]"`
OnException(msg) == [pc |-> "returned", result |-> Some(ErrorContent(msg))]

FileNames ==
    {"report.pdf", "SCAN.PDF", "notes.txt", "data.xyz", "memo.docx", "book.xlsx",
     "README", "prior_year_return.pdf"}

\* the records of the documents container
DbDocs ==
    {[file_name |-> "report.pdf", file_type |-> "pdf"],
     [file_name |-> "SCAN.PDF", file_type |-> "PDF"],
     [file_name |-> "notes.txt", file_type |-> "txt"],
     [file_name |-> "data.xyz", file_type |-> "xyz"],
     [file_name |-> "memo.docx", file_type |-> "docx"],
     [file_name |-> "book.xlsx", file_type |-> "xlsx"],
     [file_name |-> "README", file_type |-> ""],
     [file_name |-> "prior_year_return.pdf", file_type |-> "pdf"]}

DriveContents == {"", "net income", "caf# 12"}

InitExtract ==
    /\ pc = "extract"
    /\ filename \in {None} \cup {Some(n) : n \in FileNames}
    /\ db_doc \in {Some(d) : d \in DbDocs}
    /\ drive_bytes \in DriveContents
    /\ parser_support \in BOOLEAN
    /\ content = None
    /\ result = None
    /\ raised = {}
    /\ filename_arg = filename
    /\ not_found = FALSE
    /\ ChunkIdle
    /\ SearchIdle
    /\ ChatIdle

\* `if filename and filename in DUMMY_DOCUMENTS: return DUMMY_DOCUMENTS[filename]`
ExtractDummy ==
    /\ pc = "extract"
    /\ filename.some /\ filename.val /= ""
    /\ filename.val \in DummyNames
    /\ result' = Some(DummyText(filename.val))
    /\ pc' = "returned"
    /\ UNCHANGED <<filename, db_doc, drive_bytes, parser_support, content, raised, filename_arg,
                   not_found>>
    /\ UNCHANGED <<chunkVars, searchVars, chatVars>>

\* no canned text for the filename argument
ExtractNoDummy ==
    /\ pc = "extract"
    /\ ~(filename.some /\ filename.val /= "" /\ filename.val \in DummyNames)
    /\ pc' = IF filename.some /\ filename.val /= "" THEN "text_content" ELSE "lookup"
    /\ UNCHANGED extractVars
    /\ UNCHANGED <<chunkVars, searchVars, chatVars>>

\* `if not filename: document = await document_service.get_by_id(doc_id)`
ExtractLookup ==
    /\ pc = "lookup"
    /\ \E db \in DbOutcomes :
        /\ IF db = "raise"
           THEN /\ pc' = OnException(DbErrorMsg).pc
                /\ result' = OnException(DbErrorMsg).result
                /\ raised' = raised \cup {"repository"}
                /\ UNCHANGED filename
           ELSE /\ pc' = "text_content"
                /\ filename' = IF db = "found" THEN Some(db_doc.val.file_name) ELSE filename
                /\ UNCHANGED <<result, raised>>
        /\ not_found' = (not_found \/ db = "missing")
    /\ UNCHANGED <<db_doc, drive_bytes, parser_support, content, filename_arg>>
    /\ UNCHANGED <<chunkVars, searchVars, chatVars>>

\* `text_content = await document_service.get_text_content(doc_id)`
ExtractTextContent ==
    /\ pc = "text_content"
    /\ \E db1 \in DbOutcomes, db2 \in DbOutcomes, drive \in DriveOutcomes :
        LET got == GetTextContent(db_doc.val, drive_bytes, db1, db2, drive)
        IN /\ IF got.raises
              THEN /\ pc' = OnException(DbErrorMsg).pc
                   /\ result' = OnException(DbErrorMsg).result
                   /\ raised' = raised \cup {"repository"}
              ELSE IF got.val.some /\ got.val.val /= ""
              THEN /\ pc' = "returned"
                   /\ result' = got.val
                   /\ UNCHANGED raised
              ELSE /\ pc' = "raw_content"
                   /\ raised' = raised \cup (IF got.drive_raised THEN {"drive"} ELSE {})
                   /\ UNCHANGED result
           /\ not_found' = (not_found \/ db1 = "missing" \/ (db1 = "found" /\ db2 = "missing"))
    /\ UNCHANGED <<filename, db_doc, drive_bytes, parser_support, content, filename_arg>>
    /\ UNCHANGED <<chunkVars, searchVars, chatVars>>

\* `content, mime_type = await document_service.get_document_content(doc_id)`
ExtractRawContent ==
    /\ pc = "raw_content"
    /\ \E db \in DbOutcomes, drive \in DriveOutcomes :
        LET got == GetDocumentContent(db_doc.val, drive_bytes, db, drive)
        IN /\ IF got.raises
              THEN /\ pc' = OnException(DbErrorMsg).pc
                   /\ result' = OnException(DbErrorMsg).result
                   /\ raised' = raised \cup {"repository"}
                   /\ UNCHANGED content
              ELSE IF NoContent(got.content)
              THEN /\ pc' = "returned"
                   /\ result' = Some(CouldNotRetrieve)
                   /\ raised' = raised \cup (IF got.drive_raised THEN {"drive"} ELSE {})
                   /\ UNCHANGED content
              ELSE /\ pc' = "parse"
                   /\ content' = Some([bytes |-> got.content.val, mime_type |-> got.mime])
                   /\ UNCHANGED <<result, raised>>
           /\ not_found' = (not_found \/ db = "missing")
    /\ UNCHANGED <<filename, db_doc, drive_bytes, parser_support, filename_arg>>
    /\ UNCHANGED <<chunkVars, searchVars, chatVars>>

\* "Extract text based on file type"
ExtractParse ==
    /\ pc = "parse"
    /\ \E lib \in LibOutcomes :
        /\ result' = Some(ParseByType(filename, content.val.bytes, content.val.mime_type,
                                      parser_support, lib))
        /\ raised' = raised \cup
              (IF lib = "raise" /\ parser_support
                  /\ UsesFormatParser(filename, content.val.mime_type)
               THEN {"parser"} ELSE {})
    /\ pc' = "returned"
    /\ UNCHANGED <<filename, db_doc, drive_bytes, parser_support, content, filename_arg, not_found>>
    /\ UNCHANGED <<chunkVars, searchVars, chatVars>>

NextExtract ==
    \/ ExtractDummy \/ ExtractNoDummy \/ ExtractLookup \/ ExtractTextContent
    \/ ExtractRawContent \/ ExtractParse

SpecExtract == InitExtract /\ [][NextExtract]_vars

----------------------------------------------------------------------------
(* Properties of extract_document_text *)

IsErrorContent(r) == r.some /\ StartsWith(r.val, "[Error extracting content: ")

\* C9 as stated: the call never lets an exception through and returns a
\* string, and that string is the "[Error extracting content: <message>]"
\* placeholder whenever the lookup, the content fetch or a parser raised.
C9_ExtractNeverRaises_Original ==
    /\ pc /= "raised"
    /\ pc = "returned" => result.some
    /\ (pc = "returned" /\ raised /= {}) => IsErrorContent(result)

\* C9 amended: the call never lets an exception through and always returns a
\* string; the string is the "[Error extracting content: <message>]"
\* placeholder exactly when a repository lookup raised, which is the only
\* exception that reaches extract_document_text; an exception of the Drive
\* download or of a parsing library is caught by the function that made the
\* call and the returned string is not that placeholder.
C9_ExtractNeverRaises ==
    /\ pc /= "raised"
    /\ pc = "returned" => result.some
    /\ pc = "returned" => (IsErrorContent(result) <=> "repository" \in raised)
    /\ (pc = "returned" /\ "repository" \in raised) => result = Some(ErrorContent(DbErrorMsg))

\* a repository lookup raised after the call had got as far as the content
\* fetch, and the call returned the placeholder
C9_Witness ==
    /\ pc = "returned"
    /\ raised = {"drive", "repository"}
    /\ result = Some(ErrorContent(DbErrorMsg))

\* the call took no file name and every collaborator answered: each lookup
\* found the record, and neither the repository nor the download raised
ByIdAllAnswered ==
    /\ pc = "returned"
    /\ ~filename_arg.some
    /\ ~not_found
    /\ raised \subseteq {"parser"}

\* the parser the extension of a file name selects (lines 283-288), or ""
ParserFormat(name) ==
    LET ext == SplitextExt(ToLower(name))
    IN IF ext = ".pdf" THEN "PDF"
       ELSE IF ext = ".docx" THEN "DOCX"
       ELSE IF ext = ".xlsx" THEN "XLSX"
       ELSE ""

\* the extensions extract_document_text decodes or parses (lines 283-290)
ParsedExts == {".pdf", ".docx", ".xlsx", ".txt", ".csv", ".json", ".md"}

\* C11 as stated: when the record is a PDF, DOCX or XLSX file, its bytes are
\* downloaded and are not empty, the call returns what the parser of that
\* format makes of the bytes.
C11_StructuredFormatsParsed ==
    (/\ ByIdAllAnswered
     /\ ParserFormat(db_doc.val.file_name) /= ""
     /\ drive_bytes /= "")
    => \E lib \in LibOutcomes :
           result = Some(FormatParser(ParserFormat(db_doc.val.file_name), drive_bytes,
                                      parser_support, lib))

\* C12 as stated: when the record's type has no parser (file "data.xyz", or a
\* file without extension), the call returns the "[Content extraction not
\* supported for ...]" message naming the type, for empty bytes as for others.
C12_UnsupportedTypeMessage ==
    (/\ ByIdAllAnswered
     /\ SplitextExt(ToLower(db_doc.val.file_name)) \notin ParsedExts
     /\ ToLower(db_doc.val.file_type) \notin TextFileTypes)
    => result \in {Some(UnsupportedExt(SplitextExt(ToLower(db_doc.val.file_name)))),
                   Some(UnsupportedMime(MimeOf(db_doc.val.file_type)))}

\* C13 as stated: when the call takes no file name, the record, found, names
\* a file of DUMMY_DOCUMENTS, and the download yields no bytes, the call
\* returns the text DUMMY_DOCUMENTS holds for that file.
C13_FixtureByRecordName ==
    (/\ pc = "returned"
     /\ ~filename_arg.some
     /\ ~not_found
     /\ "repository" \notin raised
     /\ db_doc.val.file_name \in DummyNames
     /\ (drive_bytes = "" \/ "drive" \in raised))
    => result = Some(DummyText(db_doc.val.file_name))

----------------------------------------------------------------------------
(* Scoring: RAGService.search_documents, _expand_query_with_tax_terms,      *)
(* text_utils.calculate_relevance_score                                     *)

\* `sub in s`
Contains(s, sub) == \E i \in 0..(Len(s) - Len(sub)) : MatchAt(s, sub, i)

\* the offsets of t where sub occurs
Occurrences(t, sub) == {i \in 0..(Len(t) - Len(sub)) : MatchAt(t, sub, i)}

\* the occurrences a scan from the left finds from offset i on, each starting
\* where the one before it ended or later (str.count, re.finditer)
RECURSIVE ScanFrom(_, _, _)
ScanFrom(hits, width, i) ==
    LET ahead == {h \in hits : h >= i}
    IN IF ahead = {} THEN <<>>
       ELSE LET h == CHOOSE x \in ahead : \A y \in ahead : x <= y
            IN <<h>> \o ScanFrom(hits, width, h + Max(width, 1))

\* str.count(sub) from offset i on
CountFrom(t, sub, i) == Len(ScanFrom(Occurrences(t, sub), Len(sub), i))

Count(t, sub) == CountFrom(t, sub, 0)

\* str.split(): the maximal runs of characters that are not white space
RECURSIVE SplitFrom(_, _)
SplitFrom(s, cur) ==
    IF s = "" THEN (IF cur = "" THEN <<>> ELSE <<cur>>)
    ELSE IF IsSpaceChar(Head(s))
         THEN (IF cur = "" THEN <<>> ELSE <<cur>>) \o SplitFrom(Tail(s), "")
         ELSE SplitFrom(Tail(s), cur \o Head(s))

Split(s) == SplitFrom(s, "")

RECURSIVE SumSeq(_)
SumSeq(ns) == IF ns = <<>> THEN 0 ELSE Head(ns) + SumSeq(Tail(ns))

\* the sum of Count(t, x) over the terms x of the set S
RECURSIVE SumCounts(_, _)
SumCounts(S, t) ==
    IF S = {} THEN 0
    ELSE LET x == CHOOSE y \in S : TRUE
         IN Count(t, x) + SumCounts(S \ {x}, t)

Range(q) == {q[i] : i \in 1..Len(q)}

TaxTerms == {"missing", "risk", "form", "tax", "income", "deduction", "credit", "deadline", "review", "calculate", "client", "prior", "document"}

\* tax_term_map[term]
TaxTermMap(term) ==
    IF term = "missing" THEN
        {"incomplete", "needed", "required", "omitted", "absent"}
    ELSE IF term = "risk" THEN
        {"issue", "concern", "problem", "audit", "flag", "exposure"}
    ELSE IF term = "form" THEN
        {"return", "schedule", "worksheet", "1120", "1065", "1040"}
    ELSE IF term = "tax" THEN
        {"irs", "filing", "return", "deduction", "credit", "liability"}
    ELSE IF term = "income" THEN
        {"revenue", "earnings", "profit", "gain", "proceeds"}
    ELSE IF term = "deduction" THEN
        {"expense", "write-off", "depreciation", "amortization"}
    ELSE IF term = "credit" THEN
        {"offset", "incentive", "rebate", "reduction"}
    ELSE IF term = "deadline" THEN
        {"due date", "extension", "filing date", "submission"}
    ELSE IF term = "review" THEN
        {"examine", "analyze", "verify", "check", "audit"}
    ELSE IF term = "calculate" THEN
        {"compute", "determine", "figure", "quantify"}
    ELSE IF term = "client" THEN
        {"taxpayer", "company", "corporation", "partnership", "individual"}
    ELSE IF term = "prior" THEN
        {"previous", "last year", "historical", "past"}
    ELSE IF term = "document" THEN
        {"record", "file", "statement", "receipt", "evidence"}
    ELSE {}

\* _expand_query_with_tax_terms: the expansions of the query terms that are
\* keys of the table and of the keys that are proper parts of a query term,
\* without duplicates
ExpandQueryWithTaxTerms(query_terms) ==
    UNION {TaxTermMap(term) : term \in Range(query_terms) \cap TaxTerms}
    \cup UNION {TaxTermMap(tax_term) :
                  tax_term \in {k \in TaxTerms :
                                  \E query_term \in Range(query_terms) :
                                      Contains(query_term, k) /\ k /= query_term}}

\* the weights of a direct query term and of an expansion term
DirectWeight == 2
ExpandedWeight == 1

\* mutant of ChunkScore: the expansion terms weigh as much as the direct ones
ChunkScoreEqualWeights(chunk, query_terms, expanded_terms) ==
    LET chunk_lower == ToLower(chunk)
    IN SumSeq([i \in 1..Len(query_terms) |-> Count(chunk_lower, query_terms[i]) * DirectWeight])
       + SumCounts(expanded_terms, chunk_lower) * DirectWeight

\* mutant of ChunkScore: every chunk of a non-empty text scores at least 1
ChunkScoreNeverZero(chunk, query_terms, expanded_terms) ==
    LET chunk_lower == ToLower(chunk)
    IN 1 + SumSeq([i \in 1..Len(query_terms) |-> Count(chunk_lower, query_terms[i]) * DirectWeight])
       + SumCounts(expanded_terms, chunk_lower) * ExpandedWeight

\* the score of one chunk in search_documents
ChunkScore(chunk, query_terms, expanded_terms) ==
    LET chunk_lower == ToLower(chunk)
    IN SumSeq([i \in 1..Len(query_terms) |-> Count(chunk_lower, query_terms[i]) * DirectWeight])
       + SumCounts(expanded_terms, chunk_lower) * ExpandedWeight

IsLetter(c) ==
    \E i \in 1..Len(LowerLetters) : CharAt(LowerLetters, i) = c \/ CharAt(UpperLetters, i) = c
IsWordChar(c) ==
    IsLetter(c) \/ c = "_" \/ (\E i \in 1..10 : CharAt("0123456789", i) = c)

\* the maximal runs of word characters of s
RECURSIVE WordRunsFrom(_, _)
WordRunsFrom(s, cur) ==
    IF s = "" THEN (IF cur = "" THEN <<>> ELSE <<cur>>)
    ELSE IF ~IsWordChar(Head(s))
         THEN (IF cur = "" THEN <<>> ELSE <<cur>>) \o WordRunsFrom(Tail(s), "")
         ELSE WordRunsFrom(Tail(s), cur \o Head(s))

\* re.findall(r'\b[a-zA-Z]{2,}\b', s): the runs of word characters that are
\* two or more letters and nothing else
LetterWords(s) ==
    LET allLetters(w) == Len(w) >= 2 /\ \A i \in 1..Len(w) : IsLetter(CharAt(w, i))
    IN SelectSeq(WordRunsFrom(s, ""), allLetters)

\* a word boundary (\b) at offset i of t
BoundaryAt(t, i) ==
    LET before == i >= 1 /\ IsWordChar(CharAt(t, i))
        after == i < Len(t) /\ IsWordChar(CharAt(t, i + 1))
    IN before /= after

\* len(re.findall(r'\b' + term + r'\b', t)) from offset i on
RECURSIVE ExactFrom(_, _, _)
ExactFrom(t, term, i) ==
    IF i + Len(term) > Len(t) THEN 0
    ELSE IF MatchAt(t, term, i) /\ BoundaryAt(t, i) /\ BoundaryAt(t, i + Len(term))
         THEN 1 + ExactFrom(t, term, i + Len(term))
    ELSE ExactFrom(t, term, i + 1)

\* calculate_relevance_score(text, query). The float it returns is num / den:
\* score = 2.0 * exact + 0.5 * partial is halves / 2, the divisor
\* len(query_terms) * max(1, text_length / 100) is den / 100, so the quotient
\* is 50 * halves / den. A call that divides by zero raises.
CalculateRelevanceScore(t, q) ==
    IF t = "" \/ q = "" THEN [raises |-> FALSE, num |-> 0, den |-> 1]
    ELSE LET text_lower == ToLower(t)
             query_terms == LetterWords(ToLower(q))
             halves == SumSeq([i \in 1..Len(query_terms) |->
                         LET exact == ExactFrom(text_lower, query_terms[i], 0)
                             partial == Count(text_lower, query_terms[i]) - exact
                         IN 4 * exact + partial])
             text_length == Max(1, Len(Split(text_lower)))
             den == Len(query_terms) * Max(100, text_length)
         IN IF den = 0 THEN [raises |-> TRUE, num |-> 0, den |-> 0]
            ELSE [raises |-> FALSE, num |-> 50 * halves, den |-> den]

----------------------------------------------------------------------------
(* Retrieval: RAGService.search_documents                                   *)
(*                                                                          *)
(* The `try:` of the loop over the documents (line 167) has no handler in   *)
(* the source, so the module does not compile as it stands; the loop body   *)
(* is modelled as written, with no handler around it.                       *)

MaxDocs == 2
MaxResults == 3

\* ss[:n], for n >= 0
Take(ss, n) == SubSeq(ss, 1, Min(n, Len(ss)))

\* split_into_chunks(text, chunk_size, overlap): the windows from start s on
RECURSIVE WindowsFrom(_, _, _, _)
WindowsFrom(t, size, ov, s) ==
    IF s >= Len(t) THEN <<>>
    ELSE LET end == WindowEnd(t, s, size)
         IN <<Slice(t, s, end)>> \o WindowsFrom(t, size, ov, NextStart(s, end, ov))

\* split_into_chunks(text, chunk_size, overlap): the returned list
SplitIntoChunks(t, size, ov) ==
    IF t = "" THEN <<>>
    ELSE IF FitsInOneChunk(t, size) THEN <<t>>
    ELSE WindowsFrom(t, size, ov, 0)

\* the documents of the repository: file_name, file_type, and `text`, what
\* extract_document_text(doc_id) returns for the document (always a string;
\* the placeholder of OnException when the extraction failed)
StoredFiles ==
    { [file_name |-> "notes.txt", file_type |-> "txt", text |-> "Tax audit. tax"],
      [file_name |-> "list.md", file_type |-> "md", text |-> "incomplete needed required"],
      [file_name |-> "empty.txt", file_type |-> "txt", text |-> ""],
      [file_name |-> "broken.pdf", file_type |-> "pdf", text |-> ErrorContent(DbErrorMsg)] }

DocId(i) == "doc-" \o CharAt("123456789", i)

\* the lists of up to n documents, with doc_ids in the order of the list
DocumentLists(files, n) ==
    {[i \in 1..Len(fs) |-> [doc_id |-> DocId(i), file_name |-> fs[i].file_name,
                            file_type |-> fs[i].file_type, text |-> fs[i].text]] :
        fs \in SeqsUpTo(files, n)}

SearchQueries == {"", "tax", "missing", "incomplete", "Error extracting", "?"}

\* the chunk_size and overlap get_document_chunks splits with: sizes that
\* leave the stored texts whole, or small ones that split the short texts
Chunkings == {[size |-> 2000, overlap |-> 100], [size |-> 12, overlap |-> 0]}

\* get_document_chunks(doc_id): the extracted text of the document, chunked
GetDocumentChunks(doc, ch) == SplitIntoChunks(doc.text, ch.size, ch.overlap)

\* the extraction of the document failed: its text is the error placeholder
ExtractionFailed(doc) == IsErrorContent(Some(doc.text))

\* the entries search_documents appends for one document, in chunk order
DocumentResults(doc, query_terms, expanded_terms, ch) ==
    LET doc_chunks == GetDocumentChunks(doc, ch)
        scored == [i \in 1..Len(doc_chunks) |->
                      [document |-> [doc_id |-> doc.doc_id, file_name |-> doc.file_name,
                                     file_type |-> doc.file_type],
                       text |-> doc_chunks[i],
                       score |-> ChunkScore(doc_chunks[i], query_terms, expanded_terms),
                       chunk_idx |-> i - 1]]
    IN SelectSeq(scored, LAMBDA r : r.score > 0)

\* `results` after the loop over the documents
RECURSIVE AllResults(_, _, _, _)
AllResults(docs, query_terms, expanded_terms, ch) ==
    IF docs = <<>> THEN <<>>
    ELSE DocumentResults(Head(docs), query_terms, expanded_terms, ch)
         \o AllResults(Tail(docs), query_terms, expanded_terms, ch)

\* mutant of InsertByScore: r goes before the entries that score as much
InsertByScoreBeforeTies(sorted, r) ==
    LET ahead == Len(SelectSeq(sorted, LAMBDA x : x.score > r.score))
    IN SubSeq(sorted, 1, ahead) \o <<r>> \o SubSeq(sorted, ahead + 1, Len(sorted))

\* r put into a list sorted by descending score, after the entries that
\* score as much or more
InsertByScore(sorted, r) ==
    LET ahead == Len(SelectSeq(sorted, LAMBDA x : x.score >= r.score))
    IN SubSeq(sorted, 1, ahead) \o <<r>> \o SubSeq(sorted, ahead + 1, Len(sorted))

\* results.sort(key=lambda x: x["score"], reverse=True): a stable sort
RECURSIVE SortByScoreDesc(_)
SortByScoreDesc(rs) ==
    IF rs = <<>> THEN <<>>
    ELSE InsertByScore(SortByScoreDesc(SubSeq(rs, 1, Len(rs) - 1)), rs[Len(rs)])

\* search_documents(query, doc_ids, max_results), docs being what
\* get_documents_by_ids(doc_ids) returns
SearchDocuments(q, docs, limit, ch) ==
    LET query_terms == Split(ToLower(q))
        expanded_terms == ExpandQueryWithTaxTerms(query_terms)
    IN Take(SortByScoreDesc(AllResults(docs, query_terms, expanded_terms, ch)), limit)

InitSearch ==
    /\ pc = "search"
    /\ documents \in DocumentLists(StoredFiles, MaxDocs)
    /\ query \in {Some(q) : q \in SearchQueries}
    /\ max_results \in 0..MaxResults
    /\ chunking \in Chunkings
    /\ results = <<>>
    /\ prior = None
    /\ relevance = None
    /\ max_tokens = 0
    /\ snippets = <<>>
    /\ current_tokens = 0
    /\ ChunkIdle
    /\ ExtractIdle
    /\ ChatIdle

\* a call of search_documents
Search ==
    /\ pc = "search"
    /\ results' = SearchDocuments(query.val, documents, max_results, chunking)
    /\ pc' = "searched"
    /\ UNCHANGED <<documents, query, max_results, chunking, prior, relevance, max_tokens, snippets, current_tokens>>
    /\ UNCHANGED <<chunkVars, extractVars, chatVars>>

\* a second call, over the same documents with another query
SearchAgain ==
    /\ pc = "searched"
    /\ ~prior.some
    /\ \E q \in SearchQueries :
          /\ query' = Some(q)
          /\ results' = SearchDocuments(q, documents, max_results, chunking)
    /\ prior' = Some([query |-> query.val, results |-> results])
    /\ UNCHANGED <<pc, documents, max_results, chunking, relevance, max_tokens, snippets, current_tokens>>
    /\ UNCHANGED <<chunkVars, extractVars, chatVars>>

\* a call of calculate_relevance_score on the text of the first document
Relevance ==
    /\ pc = "search"
    /\ documents /= <<>>
    /\ relevance' = Some(CalculateRelevanceScore(documents[1].text, query.val))
    /\ pc' = "scored"
    /\ UNCHANGED <<documents, query, max_results, chunking, results, prior, max_tokens, snippets, current_tokens>>
    /\ UNCHANGED <<chunkVars, extractVars, chatVars>>

NextSearch == Search \/ SearchAgain \/ Relevance

SpecSearch == InitSearch /\ [][NextSearch]_vars

\* the place of the document with this doc_id in `documents`
DocPos(doc_id) == CHOOSE i \in 1..Len(documents) : documents[i].doc_id = doc_id

\* C2: search_documents returns at most max_results entries, in descending
\* order of score; entries of equal score stand in the order of their
\* documents and, within one document, in increasing chunk position.
C2_ResultsOrdered ==
    pc = "searched" =>
        /\ Len(results) <= max_results
        /\ \A i, j \in 1..Len(results) :
              i < j =>
                 \/ results[i].score > results[j].score
                 \/ /\ results[i].score = results[j].score
                    /\ \/ DocPos(results[i].document.doc_id) < DocPos(results[j].document.doc_id)
                       \/ /\ results[i].document.doc_id = results[j].document.doc_id
                          /\ results[i].chunk_idx < results[j].chunk_idx

\* a returned list that was cut to max_results, with a tie between two chunks
\* of one document and a tie between chunks of two documents
C2_Witness ==
    /\ pc = "searched"
    /\ Len(results) = max_results
    /\ Len(AllResults(documents, Split(ToLower(query.val)),
                      ExpandQueryWithTaxTerms(Split(ToLower(query.val))), chunking)) > max_results
    /\ \E i, j \in 1..Len(results) :
          /\ i < j
          /\ results[i].score = results[j].score
          /\ results[i].document.doc_id = results[j].document.doc_id
    /\ \E i, j \in 1..Len(results) :
          /\ i < j
          /\ results[i].score = results[j].score
          /\ results[i].document.doc_id /= results[j].document.doc_id

\* the score a returned list gives the chunk idx of a document, 0 when the
\* chunk is not in the list
ScoreIn(rs, doc_id, idx) ==
    LET hits == {i \in 1..Len(rs) : rs[i].document.doc_id = doc_id /\ rs[i].chunk_idx = idx}
    IN IF hits = {} THEN 0 ELSE rs[CHOOSE i \in hits : TRUE].score

\* the last two searches were for a single term and then for a single term
\* that is an expansion of the first, and neither list was cut
SearchedTermThenExpansion ==
    /\ pc = "searched"
    /\ prior.some
    /\ Len(Split(ToLower(prior.val.query))) = 1
    /\ Len(Split(ToLower(query.val))) = 1
    /\ Split(ToLower(query.val))[1] \in ExpandQueryWithTaxTerms(Split(ToLower(prior.val.query)))
    /\ Len(prior.val.results) < max_results
    /\ Len(results) < max_results

\* C7 as stated: a chunk in which the query term q does not occur and its
\* expansion term e does scores strictly less for the query [q] than for the
\* query [e].
C7_ExpansionScoresLess_Original ==
    SearchedTermThenExpansion =>
        LET q == Split(ToLower(prior.val.query))[1]
            e == Split(ToLower(query.val))[1]
        IN \A d \in 1..Len(documents) :
              LET doc_chunks == GetDocumentChunks(documents[d], chunking)
              IN \A c \in 1..Len(doc_chunks) :
                    (/\ ~Contains(ToLower(doc_chunks[c]), q)
                     /\ Contains(ToLower(doc_chunks[c]), e))
                    => ScoreIn(prior.val.results, documents[d].doc_id, c - 1)
                         < ScoreIn(results, documents[d].doc_id, c - 1)

\* C7 amended: a chunk in which the query term q does not occur, its
\* expansion term e does, and no other expansion term of q does, scores
\* strictly less for the query [q] than for the query [e].
C7_ExpansionScoresLess ==
    SearchedTermThenExpansion =>
        LET q == Split(ToLower(prior.val.query))[1]
            e == Split(ToLower(query.val))[1]
        IN \A d \in 1..Len(documents) :
              LET doc_chunks == GetDocumentChunks(documents[d], chunking)
              IN \A c \in 1..Len(doc_chunks) :
                    (/\ ~Contains(ToLower(doc_chunks[c]), q)
                     /\ Contains(ToLower(doc_chunks[c]), e)
                     /\ \A x \in ExpandQueryWithTaxTerms(<<q>>) \ {e} :
                           ~Contains(ToLower(doc_chunks[c]), x))
                    => ScoreIn(prior.val.results, documents[d].doc_id, c - 1)
                         < ScoreIn(results, documents[d].doc_id, c - 1)

\* a chunk in which "incomplete" occurs once and no other expansion term of
\* "missing" was searched for "missing" and then for "incomplete": it scored
\* 1 and then 2
C7_Witness ==
    /\ SearchedTermThenExpansion
    /\ prior.val.query = "missing"
    /\ query.val = "incomplete"
    /\ \E d \in 1..Len(documents) :
          /\ GetDocumentChunks(documents[d], chunking) /= <<>>
          /\ GetDocumentChunks(documents[d], chunking)[1] = "incomplete "
          /\ ScoreIn(prior.val.results, documents[d].doc_id, 0) = ExpandedWeight
          /\ ScoreIn(results, documents[d].doc_id, 0) = DirectWeight

\* C8: a search with the empty query returns nothing, no search returns a
\* chunk of a document whose text is empty, and calculate_relevance_score
\* returns 0 when the query or the text is empty.
C8_EmptyScoresZero ==
    /\ (pc = "searched" /\ query.val = "") => results = <<>>
    /\ pc = "searched" =>
          \A i \in 1..Len(results) :
              /\ results[i].text /= ""
              /\ documents[DocPos(results[i].document.doc_id)].text /= ""
    /\ (pc = "scored" /\ (query.val = "" \/ documents[1].text = "")) =>
          (~relevance.val.raises /\ relevance.val.num = 0)

\* documents, one of them empty, that yielded chunks for a query yield none
\* for the empty query
C8_Witness ==
    /\ pc = "searched"
    /\ query.val = ""
    /\ prior.some
    /\ prior.val.results /= <<>>
    /\ \E d \in 1..Len(documents) : documents[d].text = ""
    /\ results = <<>>

\* the documents whose extraction did not fail, in order
Extracted(docs) == SelectSeq(docs, LAMBDA d : ~ExtractionFailed(d))

\* C10: no returned chunk is of a document whose extraction failed, and the
\* returned list is the one the other documents alone give.
C10_FailedDocsContributeNothing ==
    pc = "searched" =>
        /\ \A i \in 1..Len(results) :
              ~ExtractionFailed(documents[DocPos(results[i].document.doc_id)])
        /\ results = SearchDocuments(query.val, Extracted(documents), max_results, chunking)

\* C29: calculate_relevance_score returns without raising, and what it
\* returns is a number >= 0, whatever the text and the query.
C29_RelevanceScoreNeverRaises ==
    pc = "scored" =>
        /\ ~relevance.val.raises
        /\ relevance.val.num >= 0
        /\ relevance.val.den > 0

----------------------------------------------------------------------------
(* Snippet assembly: RAGService._get_document_snippets                      *)
(*                                                                          *)
(* `documents` is what the repository returned for the task or project, and *)
(* get_documents_by_ids returns the same records in the same order.         *)
(* extract_document_text returns a string whatever happens, so the handler  *)
(* of the loop over the documents (lines 313-322) is never entered.         *)

MaxTokens == 6

\* `token_estimate_factor = 4`
TokenEstimateFactor == 4
\* `max_results=10` of the search the assembler makes
SearchLimit == 10
\* `len(text) > 1000`
NarrowThreshold == 1000
\* `context_size=300`
ContextSize == 300
\* `max_tokens: int = 8000`
DefaultMaxTokens == 8000

TruncationMarker == "... [truncated due to length]"
SectionSep == "\n...\n"
Ellipsis == "..."

\* `len(text) // token_estimate_factor`
Tokens(t) == Len(t) \div TokenEstimateFactor

\* s repeated n times
RECURSIVE Repeat(_, _)
Repeat(x, n) ==
    IF n = 0 THEN ""
    ELSE IF n = 1 THEN x
    ELSE Repeat(x, n \div 2) \o Repeat(x, n - (n \div 2))

\* sep.join(ss)
RECURSIVE Join(_, _)
Join(ss, sep) ==
    IF ss = <<>> THEN ""
    ELSE IF Len(ss) = 1 THEN ss[1]
    ELSE ss[1] \o sep \o Join(Tail(ss), sep)

\* str.find(sub)
Find(t, sub) ==
    LET hits == Occurrences(t, sub)
    IN IF hits = {} THEN -1 ELSE CHOOSE i \in hits : \A j \in hits : i <= j

\* the orders in which a list can hold the elements of S, once each
RECURSIVE Orders(_)
Orders(S) ==
    IF S = {} THEN {<<>>}
    ELSE UNION {{<<x>> \o o : o \in Orders(S \ {x})} : x \in S}

\* extract_key_info: the chunk around the match of a keyword at offset i
KeyInfoChunk(t, keyword, i, context_size) ==
    LET from == Max(0, i - context_size)
        to == Min(Len(t), i + Len(keyword) + context_size)
    IN (IF from > 0 THEN Ellipsis ELSE "") \o Slice(t, from, to)
       \o (IF to < Len(t) THEN Ellipsis ELSE "")

\* extract_key_info(text, keywords, context_size): the lists it can return.
\* list(set(chunks)) holds the chunks in an order that differs from run to
\* run, and the sort by text.find keeps that order among chunks with the
\* same key (a chunk with an ellipsis is not found in the text: key -1).
ExtractKeyInfo(t, keywords, context_size) ==
    IF t = "" \/ keywords = {} THEN {<<>>}
    ELSE LET text_lower == ToLower(t)
             found == UNION {{KeyInfoChunk(t, k, i, context_size) :
                                 i \in Range(ScanFrom(Occurrences(text_lower, ToLower(k)), Len(k), 0))} :
                             k \in keywords}
         IN {o \in Orders(found) :
                \A i, j \in 1..Len(o) : i < j => Find(t, o[i]) <= Find(t, o[j])}

\* the texts the second loop can go on with after
\* `if query and len(text) > 1000:`
NarrowedTexts(t, q) ==
    IF q.some /\ q.val /= "" /\ Len(t) > NarrowThreshold
    THEN LET keywords == Split(ToLower(q.val))
             all_terms == Range(keywords) \cup ExpandQueryWithTaxTerms(keywords)
         IN {IF relevant_sections /= <<>> THEN Join(relevant_sections, SectionSep) ELSE t :
                relevant_sections \in ExtractKeyInfo(t, all_terms, ContextSize)}
    ELSE {t}

\* an entry of `snippets`
Snippet(doc, t, score) ==
    [doc_id |-> doc.doc_id, file_name |-> doc.file_name, file_type |-> doc.file_type,
     text |-> t, relevance_score |-> score]

\* mutant of QueryPass: the loop ends at the first result that does not fit
RECURSIVE QueryPassStopAtMiss(_, _, _, _)
QueryPassStopAtMiss(search_results, limit, snips, cur) ==
    IF search_results = <<>> THEN [snippets |-> snips, current_tokens |-> cur]
    ELSE LET r == Head(search_results)
             doc_tokens == Tokens(r.text)
             taken == Append(snips, Snippet(r.document, r.text, r.score))
         IN IF cur + doc_tokens > limit
            THEN [snippets |-> snips, current_tokens |-> cur]
            ELSE IF cur + doc_tokens >= limit
            THEN [snippets |-> taken, current_tokens |-> cur + doc_tokens]
            ELSE QueryPassStopAtMiss(Tail(search_results), limit, taken, cur + doc_tokens)

\* the first loop, over the search results that are left: `snippets` and
\* `current_tokens` at its end
RECURSIVE QueryPass(_, _, _, _)
QueryPass(search_results, limit, snips, cur) ==
    IF search_results = <<>> THEN [snippets |-> snips, current_tokens |-> cur]
    ELSE LET r == Head(search_results)
             doc_tokens == Tokens(r.text)
             taken == Append(snips, Snippet(r.document, r.text, r.score))
         IN IF cur + doc_tokens > limit
            THEN QueryPass(Tail(search_results), limit, snips, cur)
            ELSE IF cur + doc_tokens >= limit
            THEN [snippets |-> taken, current_tokens |-> cur + doc_tokens]
            ELSE QueryPass(Tail(search_results), limit, taken, cur + doc_tokens)

\* mutant of Truncate: the marker is added and nothing is cut
TruncateMarkOnly(t, remaining_tokens) == t \o TruncationMarker

\* `text[:truncated_length] + "... [truncated due to length]"`
Truncate(t, remaining_tokens) ==
    Slice(t, 0, remaining_tokens * TokenEstimateFactor) \o TruncationMarker

\* the second loop, over the documents that are left: the values of
\* `snippets` and `current_tokens` it can end with
RECURSIVE UnguidedPass(_, _, _, _, _)
UnguidedPass(docs, q, limit, snips, cur) ==
    IF docs = <<>> THEN {[snippets |-> snips, current_tokens |-> cur]}
    ELSE UNION {
           LET over == cur + Tokens(t) > limit
               remaining_tokens == limit - cur
               kept == IF over THEN Truncate(t, remaining_tokens) ELSE t
               doc_tokens == IF over THEN remaining_tokens ELSE Tokens(t)
               taken == Append(snips, Snippet(Head(docs), kept, 1))
           IN IF cur + doc_tokens >= limit
              THEN {[snippets |-> taken, current_tokens |-> cur + doc_tokens]}
              ELSE UnguidedPass(Tail(docs), q, limit, taken, cur + doc_tokens)
           : t \in NarrowedTexts(Head(docs).text, q)}

\* a text of more than NarrowThreshold characters in which "tax" occurs at
\* the start and at the end
LongText == "Tax" \o Repeat(" lorem ipsum", 90) \o " tax"

AssembleFiles ==
    { [file_name |-> "notes.txt", file_type |-> "txt", text |-> "Tax audit. tax"],
      [file_name |-> "list.md", file_type |-> "md", text |-> "incomplete needed required"],
      [file_name |-> "ledger.txt", file_type |-> "txt", text |-> Repeat("tax ", 33)],
      [file_name |-> "report.txt", file_type |-> "txt", text |-> LongText],
      [file_name |-> "broken.pdf", file_type |-> "pdf", text |-> ErrorContent(DbErrorMsg)] }

AssembleQueries == {None, Some("tax"), Some("missing")}

InitAssemble ==
    /\ pc = "assemble"
    /\ documents \in DocumentLists(AssembleFiles, MaxDocs)
    /\ query \in AssembleQueries
    /\ max_tokens \in (0..MaxTokens) \cup {DefaultMaxTokens}
    /\ chunking \in Chunkings
    \* a text of more than NarrowThreshold characters is left whole
    /\ \A d \in 1..Len(documents) :
          Len(documents[d].text) > NarrowThreshold => chunking.size >= Len(documents[d].text)
    /\ max_results = 0
    /\ results = <<>>
    /\ prior = None
    /\ relevance = None
    /\ snippets = <<>>
    /\ current_tokens = 0
    /\ ChunkIdle
    /\ ExtractIdle
    /\ ChatIdle

\* mutant of NeedsUnguidedPass: the budget alone decides
NeedsUnguidedPassBudgetOnly(snips, cur, limit) == cur < limit

\* `if not snippets or current_tokens < max_tokens:`
NeedsUnguidedPass(snips, cur, limit) == snips = <<>> \/ cur < limit

\* `if query:` and the loop over the search results
AssembleQueryPass ==
    /\ pc = "assemble"
    /\ IF query.some /\ query.val /= ""
       THEN LET search_results == SearchDocuments(query.val, documents, SearchLimit, chunking)
                done == QueryPass(search_results, max_tokens, <<>>, 0)
            IN /\ results' = search_results
               /\ snippets' = done.snippets
               /\ current_tokens' = done.current_tokens
       ELSE UNCHANGED <<results, snippets, current_tokens>>
    /\ pc' = "query_done"
    /\ UNCHANGED <<documents, query, max_results, chunking, prior, relevance, max_tokens>>
    /\ UNCHANGED <<chunkVars, extractVars, chatVars>>

\* `if not snippets or current_tokens < max_tokens:`, the loop over the
\* documents, and the return
AssembleUnguidedPass ==
    /\ pc = "query_done"
    /\ IF NeedsUnguidedPass(snippets, current_tokens, max_tokens)
       THEN \E done \in UnguidedPass(documents, query, max_tokens, snippets, current_tokens) :
               /\ snippets' = done.snippets
               /\ current_tokens' = done.current_tokens
       ELSE UNCHANGED <<snippets, current_tokens>>
    /\ pc' = "assembled"
    /\ UNCHANGED <<documents, query, max_results, chunking, results, prior, relevance, max_tokens>>
    /\ UNCHANGED <<chunkVars, extractVars, chatVars>>

NextAssemble == AssembleQueryPass \/ AssembleUnguidedPass

SpecAssemble == InitAssemble /\ [][NextAssemble]_vars

\* the estimated tokens of a list of snippets
RECURSIVE TotalTokens(_)
TotalTokens(snips) ==
    IF snips = <<>> THEN 0 ELSE Tokens(Head(snips).text) + TotalTokens(Tail(snips))

\* C1: the estimated tokens of the returned snippets exceed max_tokens by at
\* most the tokens of the truncation marker, and only the last snippet, the
\* truncated one, can take the total over max_tokens.
C1_TokenBudget ==
    pc = "assembled" =>
        /\ TotalTokens(snippets) <= max_tokens + Tokens(TruncationMarker)
        /\ snippets /= <<>> =>
              TotalTokens(SubSeq(snippets, 1, Len(snippets) - 1)) <= max_tokens

\* a search result was accepted, then a document was truncated, and the total
\* is max_tokens plus the tokens of the marker
C1_Witness ==
    /\ pc = "assembled"
    /\ Len(snippets) >= 2
    /\ results /= <<>>
    /\ snippets[1].text = results[1].text
    /\ TotalTokens(snippets) = max_tokens + Tokens(TruncationMarker)

\* the search results that are accepted when every one of them is tried
RECURSIVE GreedyAccepted(_, _, _)
GreedyAccepted(candidates, limit, running) ==
    IF candidates = <<>> THEN <<>>
    ELSE IF running + Tokens(Head(candidates).text) <= limit
    THEN <<Head(candidates)>>
         \o GreedyAccepted(Tail(candidates), limit, running + Tokens(Head(candidates).text))
    ELSE GreedyAccepted(Tail(candidates), limit, running)

\* the snippets of accepted search results: whole texts, with their scores
AsSnippets(candidates) ==
    [i \in 1..Len(candidates) |->
        Snippet(candidates[i].document, candidates[i].text, candidates[i].score)]

\* C3 as stated: at most 10 candidates, and the snippets of the query-guided
\* loop are the candidates that fit when each is tried in turn, whole.
C3_GreedyAcceptance_Original ==
    pc = "query_done" =>
        /\ Len(results) <= SearchLimit
        /\ snippets = AsSnippets(GreedyAccepted(results, max_tokens, 0))

\* the places in the search results where the walk stops: the candidate is
\* accepted and the accepted tokens reach max_tokens
WalkStops ==
    {k \in 1..Len(results) :
        /\ Len(GreedyAccepted(Take(results, k), max_tokens, 0))
             > Len(GreedyAccepted(Take(results, k - 1), max_tokens, 0))
        /\ TotalTokens(GreedyAccepted(Take(results, k), max_tokens, 0)) >= max_tokens}

\* C3 amended: at most 10 candidates; the walk ends after the first accepted
\* candidate that brings the accepted tokens up to max_tokens, and the
\* snippets are the candidates up to there that fit when each is tried in
\* turn, whole.
C3_GreedyAcceptance ==
    pc = "query_done" =>
        /\ Len(results) <= SearchLimit
        /\ LET walked == IF WalkStops = {} THEN Len(results)
                         ELSE CHOOSE k \in WalkStops : \A j \in WalkStops : k <= j
           IN snippets = AsSnippets(GreedyAccepted(Take(results, walked), max_tokens, 0))

\* a candidate that did not fit was left out and a later one was accepted
C3_Witness ==
    /\ pc = "query_done"
    /\ snippets /= <<>>
    /\ \E i, j \in 1..Len(results) :
          /\ i < j
          /\ Tokens(results[i].text) > max_tokens
          /\ snippets[Len(snippets)] = Snippet(results[j].document, results[j].text, results[j].score)

\* C14 as stated: without a query the assembler returns one snippet for each
\* document of the list, in the order of the list, whatever max_tokens is,
\* and the snippet of a document whose extraction failed carries the error
\* text, whole or cut to the budget, with relevance_score 0.
C14_OneSnippetPerDocument ==
    (pc = "assembled" /\ ~query.some) =>
        /\ Len(snippets) = Len(documents)
        /\ \A i \in 1..Min(Len(snippets), Len(documents)) :
              /\ snippets[i].doc_id = documents[i].doc_id
              /\ ExtractionFailed(documents[i]) =>
                    /\ snippets[i].relevance_score = 0
                    /\ snippets[i].text \in
                          {documents[i].text} \cup
                          {Truncate(documents[i].text, r) :
                              r \in 0..Min(max_tokens, Tokens(documents[i].text))}

----------------------------------------------------------------------------
(* Prompt building: RAGService.build_prompt_with_context, the user prompt   *)

MaxSnippets == 6

PromptSnippetLimit == 5
SnippetTextLimit == 1000
TemplateTextLimit == 500

ContentTruncated == "... [content truncated]"
TemplateTruncated == "... [template truncated]"
PromptClosing == "Please provide a helpful response based on the available information."

\* mutant of InsertByRelevance: x goes before the snippets that score as much
InsertByRelevanceBeforeTies(sorted, x) ==
    LET ahead == Len(SelectSeq(sorted, LAMBDA y : y.relevance_score > x.relevance_score))
    IN SubSeq(sorted, 1, ahead) \o <<x>> \o SubSeq(sorted, ahead + 1, Len(sorted))

\* x put into a list sorted by descending relevance_score, after the
\* snippets that score as much or more
InsertByRelevance(sorted, x) ==
    LET ahead == Len(SelectSeq(sorted, LAMBDA y : y.relevance_score >= x.relevance_score))
    IN SubSeq(sorted, 1, ahead) \o <<x>> \o SubSeq(sorted, ahead + 1, Len(sorted))

\* sorted(document_snippets, key=lambda x: x.get("relevance_score", 0),
\* reverse=True): a stable sort
RECURSIVE SortedByRelevance(_)
SortedByRelevance(ss) ==
    IF ss = <<>> THEN <<>>
    ELSE InsertByRelevance(SortedByRelevance(SubSeq(ss, 1, Len(ss) - 1)), ss[Len(ss)])

\* `if len(text) > 1000: text = text[:1000] + "... [content truncated]"`
TrimSnippetText(t) ==
    IF Len(t) > SnippetTextLimit THEN Slice(t, 0, SnippetTextLimit) \o ContentTruncated ELSE t

\* mutant of DocumentHeader: the header names no document
DocumentHeaderUnnamed(file_name) == "[Document]\n"

\* the header line of a snippet
DocumentHeader(file_name) == "[Document: " \o file_name \o "]\n"

\* what the loop over sorted_snippets[:5] appends for the snippets ss
RECURSIVE SnippetSections(_)
SnippetSections(ss) ==
    IF ss = <<>> THEN ""
    ELSE DocumentHeader(Head(ss).file_name) \o TrimSnippetText(Head(ss).text) \o "\n\n"
         \o SnippetSections(Tail(ss))

\* `if tax_form_template:` and its block
TemplateSection(tpl) ==
    IF ~tpl.some THEN ""
    ELSE "Tax Form Template (" \o tpl.val.form_code \o "):\n"
         \o (IF Len(tpl.val.content) > TemplateTextLimit
             THEN Slice(tpl.val.content, 0, TemplateTextLimit) \o TemplateTruncated
             ELSE tpl.val.content)
         \o "\n\n"

\* the user prompt build_prompt_with_context returns
BuildUserPrompt(user_message, sorted, tpl) ==
    "User Question: " \o user_message \o "\n\n"
    \o (IF sorted /= <<>>
        THEN "Relevant Document Information:\n\n"
             \o SnippetSections(Take(sorted, PromptSnippetLimit))
        ELSE "")
    \o TemplateSection(tpl)
    \o PromptClosing

UserMessages == {"What is missing?", ""}

PromptScores == {0, 1, 2}

PromptTemplates == {None, Some([form_code |-> "1120", content |-> "Line 1a: gross receipts"])}

\* the i-th snippet of context["documents"]: chunks of two documents by
\* turns, each with a text of its own
PromptSnippet(i, score, long) ==
    [doc_id |-> DocId(2 - (i % 2)),
     file_name |-> IF i % 2 = 1 THEN "prior_year_return.pdf" ELSE "ledger.xlsx",
     file_type |-> IF i % 2 = 1 THEN "pdf" ELSE "xlsx",
     text |-> IF long THEN Repeat("income ", 150) \o CharAt("123456789", i)
              ELSE "chunk " \o CharAt("123456789", i),
     relevance_score |-> score]

InitPrompt ==
    /\ pc = "prompt"
    /\ query \in {Some(msg) : msg \in UserMessages}
    /\ \E n \in 0..MaxSnippets :
          \E scores \in [1..n -> PromptScores], long \in 0..Min(n, 1) :
              snippets = [i \in 1..n |-> PromptSnippet(i, scores[i], long = 1 /\ i = 2)]
    /\ tax_form_template \in PromptTemplates
    /\ sorted_snippets = <<>>
    /\ user_prompt = ""
    /\ documents = <<>>
    /\ max_results = 0
    /\ chunking = [size |-> 0, overlap |-> 0]
    /\ results = <<>>
    /\ prior = None
    /\ relevance = None
    /\ max_tokens = 0
    /\ current_tokens = 0
    /\ response = ""
    /\ actions = <<>>
    /\ unique_actions = <<>>
    /\ first_call = None
    /\ interleaved = FALSE
    /\ context = None
    /\ calls = {}
    /\ system_prompt = ""
    /\ task = None
    /\ in_flight = <<>>
    /\ key_info = None
    /\ ChunkIdle
    /\ ExtractIdle

\* build_prompt_with_context from `user_prompt = ...` to the return
BuildPrompt ==
    /\ pc = "prompt"
    /\ sorted_snippets' = IF snippets /= <<>> THEN SortedByRelevance(snippets) ELSE <<>>
    /\ user_prompt' = BuildUserPrompt(query.val, sorted_snippets', tax_form_template)
    /\ pc' = "built"
    /\ UNCHANGED <<documents, query, max_results, chunking, results, prior, relevance, max_tokens,
                   snippets, current_tokens>>
    /\ UNCHANGED <<tax_form_template, response, actions, unique_actions, first_call, interleaved,
                   context, calls, system_prompt, task, in_flight, key_info>>
    /\ UNCHANGED <<chunkVars, extractVars>>

NextPrompt == BuildPrompt

SpecPrompt == InitPrompt /\ [][NextPrompt]_vars

\* the place of snippet i when the snippets are put by descending
\* relevance_score, those of equal score in the order of the list
PromptRank(i) ==
    1 + Cardinality({j \in 1..Len(snippets) :
                        \/ snippets[j].relevance_score > snippets[i].relevance_score
                        \/ /\ snippets[j].relevance_score = snippets[i].relevance_score
                           /\ j < i})

\* the snippet whose place is k
PromptPick(k) == snippets[CHOOSE i \in 1..Len(snippets) : PromptRank(i) = k]

\* the header and the text of the snippets of places k..n
RECURSIVE PromptPicksFrom(_, _)
PromptPicksFrom(k, n) ==
    IF k > n THEN ""
    ELSE DocumentHeader(PromptPick(k).file_name) \o TrimSnippetText(PromptPick(k).text) \o "\n\n"
         \o PromptPicksFrom(k + 1, n)

\* C16: the user prompt starts with the question as asked; then, when there
\* are snippets, come those of the 5 first places by descending
\* relevance_score (equal scores in the order of the list), each under the
\* "[Document: <file_name>]" header of its document; the prompt has no other
\* document header.
C16_PromptTopSnippets ==
    pc = "built" =>
        LET shown == Min(PromptSnippetLimit, Len(snippets))
            opening == "User Question: " \o query.val \o "\n\n"
            listed == IF shown = 0 THEN ""
                      ELSE "Relevant Document Information:\n\n" \o PromptPicksFrom(1, shown)
        IN /\ StartsWith(user_prompt, opening \o listed)
           /\ Count(user_prompt, "[Document: ") = shown

\* more snippets than the prompt takes, not in score order, with a tie among
\* those shown and a tie between the last one shown and one left out
C16_Witness ==
    /\ pc = "built"
    /\ Len(snippets) > PromptSnippetLimit
    /\ \E i, j \in 1..Len(snippets) :
          i < j /\ snippets[i].relevance_score < snippets[j].relevance_score
    /\ \E i, j \in 1..Len(snippets) :
          /\ i < j
          /\ snippets[i].relevance_score = snippets[j].relevance_score
          /\ PromptRank(j) <= PromptSnippetLimit
    /\ \E i, j \in 1..Len(snippets) :
          /\ snippets[i].relevance_score = snippets[j].relevance_score
          /\ PromptRank(i) = PromptSnippetLimit
          /\ PromptRank(j) > PromptSnippetLimit
    /\ Len(snippets[2].text) > SnippetTextLimit

----------------------------------------------------------------------------
(* Suggested actions: text_utils.extract_actions_from_response              *)

MaxParts == 2

\* the least element of a non-empty set of integers
Least(S) == CHOOSE x \in S : \A y \in S : x <= y

\* the alternatives of recommend_pattern, which is matched with
\* re.IGNORECASE: compared in lower case
RecommendPhrases == {"i recommend", "you could", "consider", "you may want to", "i suggest"}
RecommendVerbs == {"generating", "creating", "sending", "triggering"}
RecommendArticles == {"a", "the"}

\* the alternatives of alts that, followed by a space, stand at offset p
AlternativesAt(low, alts, p) == {x \in alts : MatchAt(low, x \o " ", p)}

\* the least offset from p on where a character of stops stands, -1 if none
FirstStop(t, stops, p) ==
    LET hits == {e \in p..(Len(t) - 1) : CharAt(t, e + 1) \in stops}
    IN IF hits = {} THEN -1 ELSE Least(hits)

\* recommend_pattern matched at offset p of the response: phrase, space,
\* verb, space, article, space, the shortest run without "\n" up to the
\* next "." or "\n"
RecommendMatchAt(t, low, p) ==
    LET phrases == AlternativesAt(low, RecommendPhrases, p)
    IN IF phrases = {} THEN None
       ELSE LET p1 == p + Len(CHOOSE x \in phrases : TRUE) + 1
                verbs == AlternativesAt(low, RecommendVerbs, p1)
            IN IF verbs = {} THEN None
               ELSE LET p2 == p1 + Len(CHOOSE x \in verbs : TRUE) + 1
                        articles == AlternativesAt(low, RecommendArticles, p2)
                    IN IF articles = {} THEN None
                       ELSE LET p3 == p2 + Len(CHOOSE x \in articles : TRUE) + 1
                                stop == FirstStop(t, {".", "\n"}, p3)
                            IN IF stop = -1 THEN None
                               ELSE Some([start |-> p, end |-> stop + 1,
                                          captured |-> Slice(t, p3, stop),
                                          whole |-> Slice(t, p, stop + 1)])

\* action_pattern matched at offset p: "Action:", the white space after it,
\* the shortest run up to the next "\n" or the end of the response
MarkerMatchAt(t, p) ==
    IF ~MatchAt(t, "Action:", p) THEN None
    ELSE LET after == p + Len("Action:")
             inked == {w \in after..(Len(t) - 1) : ~IsSpaceChar(CharAt(t, w + 1))}
             from == IF inked = {} THEN Len(t) ELSE Least(inked)
             newline == FirstStop(t, {"\n"}, from)
             stop == IF newline = -1 THEN Len(t) ELSE newline
         IN Some([start |-> p, end |-> IF newline = -1 THEN Len(t) ELSE newline + 1,
                  captured |-> Slice(t, from, stop),
                  whole |-> Slice(t, p, IF newline = -1 THEN Len(t) ELSE newline + 1)])

\* re.finditer: the matches from offset p on, from left to right, each
\* starting where the one before it ended or later; at(q) is the match at q
RECURSIVE FindIter(_, _, _)
FindIter(at, starts, p) ==
    LET ahead == {q \in starts : q >= p}
    IN IF ahead = {} THEN <<>>
       ELSE LET q == Least(ahead)
            IN <<at[q].val>> \o FindIter(at, starts, at[q].val.end)

\* re.finditer(recommend_pattern, response, re.IGNORECASE)
RecommendMatches(t) ==
    LET low == ToLower(t)
        at == [q \in 0..Len(t) |-> RecommendMatchAt(t, low, q)]
    IN FindIter(at, {q \in 0..Len(t) : at[q].some}, 0)

\* re.finditer(action_pattern, response)
MarkerMatches(t) ==
    LET at == [q \in 0..Len(t) |-> MarkerMatchAt(t, q)]
    IN FindIter(at, {q \in 0..Len(t) : at[q].some}, 0)

\* mutant of MapToAction: the text is compared as written
MapToActionCaseSensitive(action_text) ==
    IF Contains(action_text, "missing")
       /\ (Contains(action_text, "info") \/ Contains(action_text, "letter"))
    THEN Some("generate_missing_info")
    ELSE IF Contains(action_text, "risk") /\ Contains(action_text, "review")
    THEN Some("trigger_risk_review")
    ELSE IF Contains(action_text, "summary") THEN Some("generate_client_summary")
    ELSE IF Contains(action_text, "tax review") THEN Some("send_to_tax_review")
    ELSE None

\* mutant of MapToAction: "summary" is looked for first
MapToActionSummaryFirst(action_text) ==
    LET lower == ToLower(action_text)
    IN IF Contains(lower, "summary") THEN Some("generate_client_summary")
       ELSE IF Contains(lower, "missing")
               /\ (Contains(lower, "info") \/ Contains(lower, "letter"))
       THEN Some("generate_missing_info")
       ELSE IF Contains(lower, "risk") /\ Contains(lower, "review")
       THEN Some("trigger_risk_review")
       ELSE IF Contains(lower, "tax review") THEN Some("send_to_tax_review")
       ELSE None

\* "Map to predefined actions": the if/elif chain, the same in both loops
MapToAction(action_text) ==
    LET lower == ToLower(action_text)
    IN IF Contains(lower, "missing")
          /\ (Contains(lower, "info") \/ Contains(lower, "letter"))
       THEN Some("generate_missing_info")
       ELSE IF Contains(lower, "risk") /\ Contains(lower, "review")
       THEN Some("trigger_risk_review")
       ELSE IF Contains(lower, "summary") THEN Some("generate_client_summary")
       ELSE IF Contains(lower, "tax review") THEN Some("send_to_tax_review")
       ELSE None

\* the dict a loop appends for a match
Action(action_id, action_name, suggested) ==
    [action_id |-> action_id, action_name |-> action_name,
     description |-> "AI suggested: " \o suggested, params |-> <<>>]

\* the loop over recommend_matches: what it appends to `actions`
RECURSIVE RecommendLoop(_)
RecommendLoop(ms) ==
    IF ms = <<>> THEN <<>>
    ELSE LET action_object == Strip(Head(ms).captured)
             action_id == MapToAction(action_object)
         IN (IF action_id.some
             THEN <<Action(action_id.val, action_object, Head(ms).whole)>> ELSE <<>>)
            \o RecommendLoop(Tail(ms))

\* the loop over action_matches: what it appends to `actions`
RECURSIVE MarkerLoop(_)
MarkerLoop(ms) ==
    IF ms = <<>> THEN <<>>
    ELSE LET action_text == Strip(Head(ms).captured)
             action_id == MapToAction(action_text)
         IN (IF action_id.some
             THEN <<Action(action_id.val, action_text, action_text)>> ELSE <<>>)
            \o MarkerLoop(Tail(ms))

\* mutant of ActionsAtEntry: the list of the call before is kept
ActionsAtEntryKept(left) == left

\* `actions = []`: the list a call starts with, whatever the call before
\* it left
ActionsAtEntry(left) == <<>>

\* the loop that fills unique_actions, seen being seen_action_ids
RECURSIVE UniqueFrom(_, _)
UniqueFrom(acts, seen) ==
    IF acts = <<>> THEN <<>>
    ELSE IF Head(acts).action_id \in seen THEN UniqueFrom(Tail(acts), seen)
    ELSE <<Head(acts)>> \o UniqueFrom(Tail(acts), seen \cup {Head(acts).action_id})

Reverse(ss) == [i \in 1..Len(ss) |-> ss[Len(ss) + 1 - i]]

\* mutant of RemoveDuplicates: the last action of each action_id is kept
RemoveDuplicatesKeepLast(acts) == Reverse(UniqueFrom(Reverse(acts), {}))

\* "Remove duplicates based on action_id"
RemoveDuplicates(acts) == UniqueFrom(acts, {})

\* the labels the system prompt lists under "Available actions you can
\* suggest"
ActionLabels ==
    {"Generate Missing Information Letter", "Trigger Risk Review", "Generate Client Summary",
     "Send to Tax Review"}

\* the pieces the responses are made of
ReplyParts ==
    {"Action: " \o label \o "\n" : label \in ActionLabels}
    \cup {"I recommend triggering a risk review.",
          "You could consider sending the file to TAX REVIEW\n",
          "I suggest creating a summary of the missing info letter.\n",
          "Consider generating a plan. ",
          "Action: File the return\n",
          "action: summary",
          "Action:  risk summary review",
          "Nothing to do"}

\* the responses: up to n pieces, one after the other
RECURSIVE RepliesUpTo(_)
RepliesUpTo(n) ==
    IF n = 0 THEN {""}
    ELSE LET shorter == RepliesUpTo(n - 1)
         IN shorter \cup {r \o part : r \in shorter, part \in ReplyParts}

\* the responses of the calls made between two calls with the same response
OtherReplies == {"", "Action: Trigger Risk Review\n", "I suggest creating a summary.\n"}

InitActions ==
    /\ pc = "reply"
    /\ response \in RepliesUpTo(MaxParts)
    /\ actions = <<>>
    /\ unique_actions = <<>>
    /\ first_call = None
    /\ interleaved = FALSE
    /\ context = None
    /\ calls = {}
    /\ system_prompt = ""
    /\ task = None
    /\ in_flight = <<>>
    /\ key_info = None
    /\ tax_form_template = None
    /\ sorted_snippets = <<>>
    /\ user_prompt = ""
    /\ ChunkIdle
    /\ ExtractIdle
    /\ SearchIdle

\* extract_actions_from_response(response), from entry to return
ExtractActions ==
    /\ pc = "reply"
    /\ actions' = ActionsAtEntry(actions)
                   \o RecommendLoop(RecommendMatches(response))
                   \o MarkerLoop(MarkerMatches(response))
    /\ unique_actions' = RemoveDuplicates(actions')
    /\ pc' = "parsed"
    /\ UNCHANGED <<response, first_call, interleaved>>
    /\ UNCHANGED <<tax_form_template, sorted_snippets, user_prompt, context, calls, system_prompt,
                   task, in_flight, key_info>>
    /\ UNCHANGED <<chunkVars, extractVars, searchVars>>

\* the caller takes the returned list and has another response parsed: the
\* response of the first call again, or another one
NextResponse ==
    /\ pc = "parsed"
    /\ first_call' = IF first_call.some THEN first_call
                     ELSE Some([response |-> response, returned |-> unique_actions])
    /\ \E r \in OtherReplies \cup {first_call'.val.response} :
          /\ response' = r
          /\ interleaved' = (IF r = first_call'.val.response THEN interleaved ELSE TRUE)
    /\ pc' = "reply"
    /\ UNCHANGED <<actions, unique_actions>>
    /\ UNCHANGED <<tax_form_template, sorted_snippets, user_prompt, context, calls, system_prompt,
                   task, in_flight, key_info>>
    /\ UNCHANGED <<chunkVars, extractVars, searchVars>>

NextActions == ExtractActions \/ NextResponse

SpecActions == InitActions /\ [][NextActions]_vars

----------------------------------------------------------------------------
(* Properties of extract_actions_from_response *)

\* the matches of ms that are given an action_id, each with its offset in
\* the response and the dict appended for it
HitsOf(ms, free_text) ==
    {[start |-> ms[i].start, free_text |-> free_text,
      action |-> Action(MapToAction(Strip(ms[i].captured)).val, Strip(ms[i].captured),
                        IF free_text THEN ms[i].whole ELSE Strip(ms[i].captured))] :
        i \in {j \in 1..Len(ms) : MapToAction(Strip(ms[j].captured)).some}}

\* those of both patterns in the response t
Hits(t) == HitsOf(RecommendMatches(t), TRUE) \cup HitsOf(MarkerMatches(t), FALSE)

\* the hit of the set hs that stands first in the response
Leftmost(hs) == CHOOSE h \in hs : \A g \in hs : h.start <= g.start

\* C17 as stated: the returned list has one action for each action_id that
\* was matched and no action_id twice, and the action kept for an action_id
\* is the one of its first occurrence in the response, whichever pattern
\* matched it.
C17_FirstOccurrenceKept_Original ==
    pc = "parsed" =>
        LET hits == Hits(response)
        IN /\ \A i, j \in 1..Len(unique_actions) :
                 unique_actions[i].action_id = unique_actions[j].action_id => i = j
           /\ {unique_actions[i].action_id : i \in 1..Len(unique_actions)}
                 = {h.action.action_id : h \in hits}
           /\ \A i \in 1..Len(unique_actions) :
                 unique_actions[i]
                     = Leftmost({h \in hits :
                                    h.action.action_id = unique_actions[i].action_id}).action

\* C17 amended: the returned list has one action for each action_id that was
\* matched and no action_id twice; the action kept for an action_id is the
\* one of its leftmost free-text match when the free-text pattern matched it
\* at all, wherever the "Action:" markers stand, and otherwise the one of
\* its leftmost "Action:" marker.
C17_FirstOccurrenceKept ==
    pc = "parsed" =>
        LET hits == Hits(response)
        IN /\ \A i, j \in 1..Len(unique_actions) :
                 unique_actions[i].action_id = unique_actions[j].action_id => i = j
           /\ {unique_actions[i].action_id : i \in 1..Len(unique_actions)}
                 = {h.action.action_id : h \in hits}
           /\ \A i \in 1..Len(unique_actions) :
                 LET mine == {h \in hits : h.action.action_id = unique_actions[i].action_id}
                     free == {h \in mine : h.free_text}
                 IN unique_actions[i] = Leftmost(IF free /= {} THEN free ELSE mine).action

\* an "Action:" marker and, after it in the response, a free-text
\* recommendation were given the same action_id, and the action returned is
\* the one of the recommendation
C17_Witness ==
    /\ pc = "parsed"
    /\ \E h, g \in Hits(response) :
          /\ ~h.free_text
          /\ g.free_text
          /\ h.start < g.start
          /\ h.action.action_id = g.action.action_id
          /\ Len(unique_actions) = 1
          /\ unique_actions[1] = g.action

\* the action_id under which ActionService holds a label
AvailableActionId(label) ==
    IF label = "Generate Missing Information Letter" THEN "generate_missing_info"
    ELSE IF label = "Trigger Risk Review" THEN "trigger_risk_review"
    ELSE IF label = "Generate Client Summary" THEN "generate_client_summary"
    ELSE "send_to_tax_review"

\* C18: for each of the four labels L of the system prompt the response
\* "Action: L\n" yields one action, with the action_id of L, and the
\* response "I recommend triggering a risk review." yields one action with
\* action_id trigger_risk_review.
C18_OneRecommendationOneAction ==
    pc = "parsed" =>
        /\ \A label \in ActionLabels :
              response = "Action: " \o label \o "\n" =>
                  /\ Len(unique_actions) = 1
                  /\ unique_actions[1].action_id = AvailableActionId(label)
        /\ response = "I recommend triggering a risk review." =>
              /\ Len(unique_actions) = 1
              /\ unique_actions[1].action_id = "trigger_risk_review"

\* the marker response of the last label was parsed
C18_Witness ==
    /\ pc = "parsed"
    /\ response = "Action: Send to Tax Review\n"
    /\ Len(unique_actions) = 1
    /\ unique_actions[1].action_name = "Send to Tax Review"

\* the captured texts of the matches of both patterns, in the order in which
\* the two loops take them
CapturedTexts(t) ==
    [i \in 1..Len(RecommendMatches(t)) |-> Strip(RecommendMatches(t)[i].captured)]
    \o [i \in 1..Len(MarkerMatches(t)) |-> Strip(MarkerMatches(t)[i].captured)]

\* the words rule k asks for are in the text x
RuleHolds(k, x) ==
    LET lower == ToLower(x)
    IN IF k = 1 THEN /\ Contains(lower, "missing")
                     /\ (Contains(lower, "info") \/ Contains(lower, "letter"))
       ELSE IF k = 2 THEN Contains(lower, "risk") /\ Contains(lower, "review")
       ELSE IF k = 3 THEN Contains(lower, "summary")
       ELSE Contains(lower, "tax review")

RuleActionIds ==
    <<"generate_missing_info", "trigger_risk_review", "generate_client_summary",
      "send_to_tax_review">>

\* C19: the list `actions` has one action for each match whose captured text
\* satisfies a rule and none for the other matches, in the order of the
\* matches, and its action_id is the one of the first rule, in the order
\* 1..4, that the captured text satisfies; so every action_id returned is one
\* of the four.
C19_FirstRuleFixesId ==
    pc = "parsed" =>
        LET texts == CapturedTexts(response)
            ruled == SelectSeq(texts, LAMBDA x : \E k \in 1..4 : RuleHolds(k, x))
        IN /\ Len(actions) = Len(ruled)
           /\ \A i \in 1..Len(actions) :
                 /\ actions[i].action_name = ruled[i]
                 /\ \E k \in 1..4 :
                       /\ RuleHolds(k, ruled[i])
                       /\ \A j \in 1..(k - 1) : ~RuleHolds(j, ruled[i])
                       /\ actions[i].action_id = RuleActionIds[k]
           /\ \A i \in 1..Len(unique_actions) :
                 unique_actions[i].action_id \in Range(RuleActionIds)

\* a match that satisfies no rule, and a match that satisfies rule 1 and
\* rule 3 and was given the action_id of rule 1
C19_Witness ==
    /\ pc = "parsed"
    /\ \E i \in 1..Len(CapturedTexts(response)) :
          \A k \in 1..4 : ~RuleHolds(k, CapturedTexts(response)[i])
    /\ \E i \in 1..Len(actions) :
          /\ RuleHolds(1, actions[i].action_name)
          /\ RuleHolds(3, actions[i].action_name)
          /\ actions[i].action_id = "generate_missing_info"

\* C20: a call with the response of the first call returns what the first
\* call returned, whatever calls were made in between.
C20_SameResponseSameActions ==
    (pc = "parsed" /\ first_call.some /\ response = first_call.val.response)
        => unique_actions = first_call.val.returned

\* the response of the first call was parsed again after a call with another
\* response that yields an action, and the first call had yielded actions
C20_Witness ==
    /\ pc = "parsed"
    /\ first_call.some
    /\ interleaved
    /\ response = first_call.val.response
    /\ response \notin OtherReplies
    /\ unique_actions /= <<>>

----------------------------------------------------------------------------
(* The chat flow: RAGService.get_task_context and build_prompt_with_context *)

\* _get_document_snippets(documents, query, max_tokens): the lists it can
\* return
GetDocumentSnippets(docs, q, limit, ch) ==
    LET first == IF q.some /\ q.val /= ""
                 THEN QueryPass(SearchDocuments(q.val, docs, SearchLimit, ch), limit, <<>>, 0)
                 ELSE [snippets |-> <<>>, current_tokens |-> 0]
    IN IF NeedsUnguidedPass(first.snippets, first.current_tokens, limit)
       THEN {done.snippets :
                done \in UnguidedPass(docs, q, limit, first.snippets, first.current_tokens)}
       ELSE {first.snippets}

\* _get_tax_form_template(tax_form): document_service has no method
\* find_documents_by_name, so the lookup raises inside the `try`, the handler
\* logs it, and the function returns None like for a form without template
GetTaxFormTemplate(tax_form) == None

TaskNotFound == "Task not found"
ProjectNotFound == "Project not found"
ErrorSystemPrompt == "Error retrieving context"

\* the system prompt, which names the task and its tax form (the text
\* between them and the two lines on the current year are left out)
SystemPrompt(task_info) ==
    "You are an AI Tax Assistant helping preparers and reviewers complete tax projects.\n"
    \o "- Task: " \o task_info.task_id \o "\n- Tax Form: " \o task_info.tax_form \o "\n"

\* mutant of ContextFailed: the context is never taken for an error
ContextFailedNever(ctx) == FALSE

\* `if "error" in context:`
ContextFailed(ctx) == ctx.val.error.some

\* the documents of the tasks
TaskFiles ==
    { [file_name |-> "prior_year_return.pdf", file_type |-> "pdf",
       text |-> DummyText("prior_year_return.pdf")],
      [file_name |-> "notes.txt", file_type |-> "txt", text |-> "Tax audit. tax"] }

TaskForms == {"1120", ""}

ContextMessages == {"What is missing?", "tax", ""}

InitContext ==
    /\ pc = "context"
    /\ query \in {Some(msg) : msg \in ContextMessages}
    /\ documents \in DocumentLists(TaskFiles, MaxDocs)
    /\ chunking \in Chunkings
    /\ max_tokens = DefaultMaxTokens
    /\ task \in {Some([task_id |-> "task-1", tax_form |-> form]) : form \in TaskForms}
    /\ response = ""
    /\ context = None
    /\ calls = {}
    /\ system_prompt = ""
    /\ in_flight = <<>>
    /\ key_info = None
    /\ tax_form_template = None
    /\ sorted_snippets = <<>>
    /\ user_prompt = ""
    /\ max_results = 0
    /\ results = <<>>
    /\ prior = None
    /\ relevance = None
    /\ snippets = <<>>
    /\ current_tokens = 0
    /\ actions = <<>>
    /\ unique_actions = <<>>
    /\ first_call = None
    /\ interleaved = FALSE
    /\ ChunkIdle
    /\ ExtractIdle

\* get_task_context(task_id, query=user_message), from entry to return
GetTaskContext ==
    /\ pc = "context"
    /\ \E task_found, project_found \in BOOLEAN :
          IF ~task_found
          THEN /\ context' = Some([error |-> Some(TaskNotFound)])
               /\ calls' = {"task"}
               /\ UNCHANGED <<snippets, tax_form_template>>
          ELSE IF ~project_found
          THEN /\ context' = Some([error |-> Some(ProjectNotFound)])
               /\ calls' = {"task", "project"}
               /\ UNCHANGED <<snippets, tax_form_template>>
          ELSE /\ snippets' \in GetDocumentSnippets(documents, query, max_tokens, chunking)
               /\ tax_form_template' = GetTaxFormTemplate(task.val.tax_form)
               /\ context' = Some([error |-> None])
               /\ calls' = {"task", "project", "documents", "snippets", "template"}
    /\ pc' = "context_done"
    /\ UNCHANGED <<documents, query, max_results, chunking, results, prior, relevance, max_tokens,
                   current_tokens>>
    /\ UNCHANGED <<sorted_snippets, user_prompt, response, actions, unique_actions, first_call,
                   interleaved, system_prompt, task, in_flight, key_info>>
    /\ UNCHANGED <<chunkVars, extractVars>>

\* build_prompt_with_context after get_task_context has returned; an error
\* context has no key "task", so reading it raises KeyError
BuildPromptWithContext ==
    /\ pc = "context_done"
    /\ IF ContextFailed(context)
       THEN /\ system_prompt' = ErrorSystemPrompt
            /\ user_prompt' = "Error: " \o context.val.error.val
            /\ pc' = "built"
            /\ UNCHANGED sorted_snippets
       ELSE IF context.val.error.some
       THEN /\ pc' = "raised"
            /\ UNCHANGED <<system_prompt, user_prompt, sorted_snippets>>
       ELSE /\ system_prompt' = SystemPrompt(task.val)
            /\ sorted_snippets' = IF snippets /= <<>> THEN SortedByRelevance(snippets) ELSE <<>>
            /\ user_prompt' = BuildUserPrompt(query.val, sorted_snippets', tax_form_template)
            /\ pc' = "built"
    /\ UNCHANGED <<documents, query, max_results, chunking, results, prior, relevance, max_tokens,
                   snippets, current_tokens>>
    /\ UNCHANGED <<tax_form_template, response, actions, unique_actions, first_call, interleaved,
                   context, calls, task, in_flight, key_info>>
    /\ UNCHANGED <<chunkVars, extractVars>>

NextContext == GetTaskContext \/ BuildPromptWithContext

SpecContext == InitContext /\ [][NextContext]_vars

\* C21: when the task, or the task's project, is not found, get_task_context
\* returns the error dict naming which one and has called nothing after the
\* lookup that failed: it fetched no documents and built no snippets and no
\* template; build_prompt_with_context then returns the pair
\* ("Error retrieving context", "Error: <message>"); neither call raises.
C21_NotFoundIsAnErrorResult ==
    /\ pc /= "raised"
    /\ pc \in {"context_done", "built"} =>
          /\ ContextFailed(context) <=> "template" \notin calls
          /\ ContextFailed(context) =>
                /\ calls \in {{"task"}, {"task", "project"}}
                /\ context.val.error.val
                      = (IF "project" \in calls THEN ProjectNotFound ELSE TaskNotFound)
                /\ snippets = <<>>
                /\ ~tax_form_template.some
    /\ (pc = "built" /\ ContextFailed(context)) =>
          /\ system_prompt = ErrorSystemPrompt
          /\ user_prompt = "Error: " \o context.val.error.val

\* the project of a task with documents was not found and the error pair
\* was returned
C21_Witness ==
    /\ pc = "built"
    /\ documents /= <<>>
    /\ calls = {"task", "project"}
    /\ user_prompt = "Error: Project not found"
    /\ system_prompt = ErrorSystemPrompt

----------------------------------------------------------------------------
(* Properties of the assembler and of its helpers as functions *)

\* C22 as stated: the list a call of _get_document_snippets returned is the
\* only list a call with the same documents, query and max_tokens can
\* return.
C22_AssemblerDeterministic ==
    pc = "assembled" =>
        GetDocumentSnippets(documents, query, max_tokens, chunking) = {snippets}

\* what the query-guided block leaves in `snippets` and `current_tokens`
QueryGuided(docs, q, limit, ch) ==
    QueryPass(SearchDocuments(q, docs, SearchLimit, ch), limit, <<>>, 0)

\* C28: when a query is given and the query-guided pass accepted a chunk, the
\* result is what that pass accepted: the loop over the documents appends
\* no whole-document entry.
C28_NoUnguidedEntryAfterAccepted ==
    (pc = "assembled" /\ query.some /\ query.val /= ""
     /\ QueryGuided(documents, query.val, max_tokens, chunking).snippets /= <<>>) =>
        snippets = QueryGuided(documents, query.val, max_tokens, chunking).snippets

CharityPhrase == "Missing documentation for charitable contributions"

\* the chunk sizes and overlaps found in the repository: the defaults of
\* split_into_chunks and the arguments of test_document_chunking
RepositoryChunkings == {[size |-> 1000, overlap |-> 100], [size |-> 300, overlap |-> 50]}

\* the chunking leaves the phrase whole in one chunk of the document
PhraseInOneChunk(doc, ch) ==
    LET cs == GetDocumentChunks(doc, ch)
    IN \E i \in 1..Len(cs) : Contains(cs[i], CharityPhrase)

\* the scenario: the task has the one document prior_year_return.pdf, whose
\* text has the phrase, and the message is "What is missing?"
CharityScenario ==
    /\ pc = "built"
    /\ ~ContextFailed(context)
    /\ query = Some("What is missing?")
    /\ Len(documents) = 1
    /\ documents[1].file_name = "prior_year_return.pdf"
    /\ Contains(documents[1].text, CharityPhrase)

----------------------------------------------------------------------------
(* Two calls of _get_document_snippets on the one RAGService instance,      *)
(* each suspended at its `await`s                                           *)

ConcurrentFiles ==
    { [file_name |-> "notes.txt", file_type |-> "txt", text |-> "Tax audit. tax"],
      [file_name |-> "list.md", file_type |-> "md", text |-> "incomplete needed required"] }

\* a call at its entry: its arguments, `snippets = []`, `current_tokens = 0`
NewCall(docs, q, limit) ==
    [at |-> "entry", documents |-> docs, query |-> q, max_tokens |-> limit,
     snippets |-> <<>>, current_tokens |-> 0, next_doc |-> 1, overlapped |-> FALSE]

\* mutant of LocalsOf: `snippets` and `current_tokens` are those of the
\* first call, as attributes of the shared instance would be
LocalsOfShared(all, c) ==
    [all[c] EXCEPT !.snippets = all[1].snippets, !.current_tokens = all[1].current_tokens]

\* the arguments and locals a step of call c works on: its own
LocalsOf(all, c) == all[c]

\* where a call goes on after the `if query:` block:
\* `if not snippets or current_tokens < max_tokens:` and `for doc in documents:`
AfterQueryBlock(call) ==
    IF NeedsUnguidedPass(call.snippets, call.current_tokens, call.max_tokens)
       /\ call.documents /= <<>>
    THEN [call EXCEPT !.at = "await_extract", !.next_doc = 1]
    ELSE [call EXCEPT !.at = "returned"]

\* one turn of the loop over the documents with the text the extraction
\* returned, narrowed to t
AfterExtract(call, t) ==
    LET over == call.current_tokens + Tokens(t) > call.max_tokens
        remaining_tokens == call.max_tokens - call.current_tokens
        doc_tokens == IF over THEN remaining_tokens ELSE Tokens(t)
        added == [call EXCEPT
                     !.snippets = Append(@, Snippet(call.documents[call.next_doc],
                                                    IF over THEN Truncate(t, remaining_tokens)
                                                    ELSE t, 1)),
                     !.current_tokens = @ + doc_tokens]
    IN IF added.current_tokens >= call.max_tokens \/ call.next_doc = Len(call.documents)
       THEN [added EXCEPT !.at = "returned"]
       ELSE [added EXCEPT !.next_doc = @ + 1]

\* the other call is suspended at an await
OtherSuspended(c) == in_flight[3 - c].at \in {"await_search", "await_extract"}

InitConcurrent ==
    /\ pc = "concurrent"
    /\ chunking \in Chunkings
    /\ \E d1 \in DocumentLists(ConcurrentFiles, MaxDocs), d2 \in DocumentLists(ConcurrentFiles, 1) :
          \E q1 \in {None, Some("tax")}, m1 \in {1, DefaultMaxTokens} :
              in_flight = <<NewCall(d1, q1, m1), NewCall(d2, Some("missing"), DefaultMaxTokens)>>
    /\ documents = <<>>
    /\ query = None
    /\ max_results = 0
    /\ results = <<>>
    /\ prior = None
    /\ relevance = None
    /\ max_tokens = 0
    /\ snippets = <<>>
    /\ current_tokens = 0
    /\ tax_form_template = None
    /\ sorted_snippets = <<>>
    /\ user_prompt = ""
    /\ response = ""
    /\ actions = <<>>
    /\ unique_actions = <<>>
    /\ first_call = None
    /\ interleaved = FALSE
    /\ context = None
    /\ calls = {}
    /\ system_prompt = ""
    /\ task = None
    /\ key_info = None
    /\ ChunkIdle
    /\ ExtractIdle

\* the variables a step of a call leaves alone
ConcurrentFrame ==
    /\ UNCHANGED <<pc, documents, query, max_results, chunking, results, prior, relevance,
                   max_tokens, snippets, current_tokens>>
    /\ UNCHANGED <<tax_form_template, sorted_snippets, user_prompt, response, actions,
                   unique_actions, first_call, interleaved, context, calls, system_prompt, task,
                   key_info>>
    /\ UNCHANGED <<chunkVars, extractVars>>

\* the call runs from its entry to its first await
CallEnter(c) ==
    /\ in_flight[c].at = "entry"
    /\ LET call == [LocalsOf(in_flight, c) EXCEPT !.overlapped = OtherSuspended(c)]
       IN in_flight' = [in_flight EXCEPT ![c] =
                           IF call.query.some /\ call.query.val /= ""
                           THEN [call EXCEPT !.at = "await_search"]
                           ELSE AfterQueryBlock(call)]
    /\ ConcurrentFrame

\* search_documents returns: the loop over the search results runs, then
\* the call goes on to its next await or returns
CallSearchReturns(c) ==
    /\ in_flight[c].at = "await_search"
    /\ LET call == [LocalsOf(in_flight, c) EXCEPT !.overlapped = @ \/ OtherSuspended(c)]
           search_results == SearchDocuments(call.query.val, call.documents, SearchLimit,
                                             chunking)
           done == QueryPass(search_results, call.max_tokens, call.snippets,
                             call.current_tokens)
       IN in_flight' = [in_flight EXCEPT ![c] =
                           AfterQueryBlock([call EXCEPT
                                               !.snippets = done.snippets,
                                               !.current_tokens = done.current_tokens])]
    /\ ConcurrentFrame

\* extract_document_text returns for the document the loop is at
CallExtractReturns(c) ==
    /\ in_flight[c].at = "await_extract"
    /\ LET call == [LocalsOf(in_flight, c) EXCEPT !.overlapped = @ \/ OtherSuspended(c)]
       IN \E t \in NarrowedTexts(call.documents[call.next_doc].text, call.query) :
             in_flight' = [in_flight EXCEPT ![c] = AfterExtract(call, t)]
    /\ ConcurrentFrame

NextConcurrent ==
    \E c \in 1..2 : CallEnter(c) \/ CallSearchReturns(c) \/ CallExtractReturns(c)

SpecConcurrent == InitConcurrent /\ [][NextConcurrent]_vars

\* C23: a call that has returned, whatever the other call did in between,
\* returned a list that the call returns when it runs alone on its
\* documents, query and max_tokens.
C23_ConcurrentCallsIndependent ==
    pc = "concurrent" =>
        \A c \in 1..2 :
            in_flight[c].at = "returned" =>
                in_flight[c].snippets
                    \in GetDocumentSnippets(in_flight[c].documents, in_flight[c].query,
                                            in_flight[c].max_tokens, chunking)

\* both calls have returned snippets, different ones, and each of them took
\* steps while the other was suspended at an await
C23_Witness ==
    /\ pc = "concurrent"
    /\ \A c \in 1..2 :
          /\ in_flight[c].at = "returned"
          /\ in_flight[c].overlapped
          /\ in_flight[c].snippets /= <<>>
    /\ in_flight[1].snippets /= in_flight[2].snippets
    /\ Len(in_flight[1].snippets) > 1

----------------------------------------------------------------------------
(* extract_key_info called on its own, and the narrowing of a long document *)
(* in the loop over the documents                                           *)

MaxContext == 3

KeyInfoTexts == {"", "Tax audit. tax", "tax a tax", "ataxtax", "audit", "no match"}

KeywordLists == {{}, {"tax"}, {"tax", "audit"}, {"a"}}

\* a text of more than NarrowThreshold characters with three occurrences of
\* "tax" less than ContextSize apart
DenseText ==
    Repeat(" lorem ipsum", 30) \o " tax" \o Repeat(" lorem ipsum", 12) \o " tax"
    \o Repeat(" lorem ipsum", 12) \o " tax" \o Repeat(" lorem ipsum", 30)

NarrowTexts == {LongText, DenseText, "Tax audit. tax"}

NarrowQueries == {None, Some(""), Some("tax"), Some("missing")}

\* `keywords + expanded_terms` of the narrowing, as a set
AllTerms(q) ==
    LET keywords == Split(ToLower(q))
    IN Range(keywords) \cup ExpandQueryWithTaxTerms(keywords)

InitKeyInfo ==
    /\ \/ /\ pc = "key_info"
          /\ \E t \in KeyInfoTexts, ks \in KeywordLists, cs \in 0..MaxContext :
                key_info = [text |-> t, keywords |-> ks, context_size |-> cs,
                            chunks |-> <<>>, narrowed |-> ""]
          /\ query = None
       \/ /\ pc = "narrow"
          /\ \E t \in NarrowTexts :
                key_info = [text |-> t, keywords |-> {}, context_size |-> ContextSize,
                            chunks |-> <<>>, narrowed |-> ""]
          /\ query \in NarrowQueries
    /\ documents = <<>>
    /\ max_results = 0
    /\ chunking = [size |-> 2000, overlap |-> 100]
    /\ results = <<>>
    /\ prior = None
    /\ relevance = None
    /\ max_tokens = 0
    /\ snippets = <<>>
    /\ current_tokens = 0
    /\ tax_form_template = None
    /\ sorted_snippets = <<>>
    /\ user_prompt = ""
    /\ response = ""
    /\ actions = <<>>
    /\ unique_actions = <<>>
    /\ first_call = None
    /\ interleaved = FALSE
    /\ context = None
    /\ calls = {}
    /\ system_prompt = ""
    /\ task = None
    /\ in_flight = <<>>
    /\ ChunkIdle
    /\ ExtractIdle

\* the variables extract_key_info and the narrowing leave alone
KeyInfoFrame ==
    /\ UNCHANGED <<chunkVars, extractVars, searchVars>>
    /\ UNCHANGED <<tax_form_template, sorted_snippets, user_prompt, response, actions,
                   unique_actions, first_call, interleaved, context, calls, system_prompt, task,
                   in_flight>>

\* extract_key_info(text, keywords, context_size), from entry to return
ExtractKeyInfoCall ==
    /\ pc = "key_info"
    /\ \E found \in ExtractKeyInfo(key_info.text, key_info.keywords, key_info.context_size) :
          key_info' = [key_info EXCEPT !.chunks = found]
    /\ pc' = "key_info_done"
    /\ KeyInfoFrame

\* `if query and len(text) > 1000:` with its body, for one document
NarrowDocument ==
    /\ pc = "narrow"
    /\ IF query.some /\ query.val /= "" /\ Len(key_info.text) > NarrowThreshold
       THEN \E relevant_sections \in ExtractKeyInfo(key_info.text, AllTerms(query.val),
                                                    ContextSize) :
               key_info' = [key_info EXCEPT
                               !.keywords = AllTerms(query.val),
                               !.chunks = relevant_sections,
                               !.narrowed = IF relevant_sections /= <<>>
                                            THEN Join(relevant_sections, SectionSep)
                                            ELSE key_info.text]
       ELSE key_info' = [key_info EXCEPT !.narrowed = key_info.text]
    /\ pc' = "narrowed"
    /\ KeyInfoFrame

NextKeyInfo == ExtractKeyInfoCall \/ NarrowDocument

SpecKeyInfo == InitKeyInfo /\ [][NextKeyInfo]_vars

\* where the matches of keyword k start in t, as `pattern.finditer(text)`
\* with re.IGNORECASE finds them
KeywordMatches(t, k) == Range(ScanFrom(Occurrences(ToLower(t), ToLower(k)), Len(k), 0))

\* the offset in the text at which the window of a returned chunk starts
\* (the first such window, should two windows give the same chunk)
WindowPosition(call, chunk) ==
    Least({Max(0, i - call.context_size) :
              i \in UNION {{m \in KeywordMatches(call.text, k) :
                              KeyInfoChunk(call.text, k, m, call.context_size) = chunk} :
                           k \in call.keywords}})

\* C26: the list extract_key_info returns has no chunk twice and holds the
\* chunks in the order of their windows' positions in the text.
C26_KeyInfoUniqueSortedByPosition ==
    pc \in {"key_info_done", "narrowed"} =>
        \A i, j \in 1..Len(key_info.chunks) :
            i < j =>
                /\ key_info.chunks[i] /= key_info.chunks[j]
                /\ WindowPosition(key_info, key_info.chunks[i])
                       <= WindowPosition(key_info, key_info.chunks[j])

\* C30: narrowing a document of more than 1000 characters under a query
\* does not make the text longer than the extracted text.
C30_NarrowingNeverLengthens ==
    (pc = "narrowed" /\ query.some /\ query.val /= ""
     /\ Len(key_info.text) > NarrowThreshold) =>
        Len(key_info.narrowed) <= Len(key_info.text)

====
